---------------------------- MODULE Spec2Model ----------------------------
(***************************************************************************)
(* A model of git-issue's service layer: the service resolver, the four    *)
(* backend adapters (GitHub, GitLab, Gogs, JIRA) and the HTTP requests     *)
(* their operations issue.                                                 *)
(*                                                                         *)
(* The program is single threaded and synchronous, so every operation is   *)
(* one action.  The backend is the environment: the status of the k-th     *)
(* request of an operation and the payloads it answers with are inputs of  *)
(* the action.  `http' records the requests the last operation issued, in  *)
(* order, each with the status it was answered with; `outcome' is what the *)
(* operation returned or raised.                                           *)
(*                                                                         *)
(* Python values: an optional value (None or v) is the set {} or {v}; a    *)
(* dict is a function from its keys; a list is a sequence.                 *)
(***************************************************************************)
EXTENDS Integers, Sequences, FiniteSets, TLC

VARIABLES
    op,        \* the last operation invoked: its adapter, name and arguments
    http,      \* the requests that operation issued, in order
    outcome,   \* what it returned or raised
    pc,        \* "idle": no call in progress; "done": a call has ended
    ghUsers,   \* github.CACHE['users']: user id -> the detail fetched for it
    glCache,   \* the keys of gitlab.CACHE
    jiraCache, \* the keys of jira.CACHE among 'states'
    gogsIssue, \* the GogsIssue the caller holds (None before it fetched
               \* one): its state and its `cache' dict
    cacheWriter \* history: for each entry of the three caches, the Service
               \* instance whose call wrote it

vars ==
    <<op, http, outcome, pc, ghUsers, glCache, jiraCache, gogsIssue,
      cacheWriter>>

caches == <<ghUsers, glCache, jiraCache, gogsIssue, cacheWriter>>

-----------------------------------------------------------------------------
(* Bounds of the model. *)

\* Requests of one operation whose status the environment chooses freely;
\* every later request succeeds.
MaxReq == 4

-----------------------------------------------------------------------------
(* Outcomes of an operation. *)

None == {}

Truthy(v) == v # None /\ v # {""}

Returned(v) == [kind |-> "returned", value |-> v]

\* `text' is the format string of the message, `args' the values put in it.
Raised(exc, text, args) ==
    [kind |-> "raised", exc |-> exc, text |-> text, args |-> args]

\* GitIssueError(response): '<status> <reason>', or 'issue not found'.
RaisedResponse(req) == Raised("GitIssueError", "response", <<req.url>>)

Adapters == {"GitHub", "GitLab", "Gogs", "JIRA"}

-----------------------------------------------------------------------------
(* Requests.  The environment answers the k-th request of an operation     *)
(* with a failure status iff k \in fails.                                  *)

Req(method, url, data, ok) ==
    [method |-> method, url |-> url, data |-> data, ok |-> ok]

NoData == <<>>

Ok(fails, log) == (Len(log) + 1) \notin fails

\* Issue `method url' as the next request of the log.
Send(fails, log, method, url, data) ==
    Append(log, Req(method, url, data, Ok(fails, log)))

Last(log) == log[Len(log)]

FailSets == SUBSET (1 .. MaxReq)

-----------------------------------------------------------------------------
(* Service resolver and adapter construction. *)

\* The abstract methods of Service.
ServiceAbstract ==
    {"create", "issue", "issues", "states", "user_search", "labels",
     "milestones"}

\* The methods each adapter class defines.
GitHubMethods ==
    {"create", "issue", "issues", "states", "user_search", "labels",
     "milestones"}

GitLabMethods ==
    {"create", "issue", "issues", "states", "user_search", "labels",
     "milestones"}

GogsMethods ==
    {"create", "issue", "issues", "labels", "milestones", "user_search"}

JIRAMethods ==
    {"create", "issue", "issues", "states", "user_search", "labels",
     "milestones"}

Methods(cls) ==
    CASE cls = "GitHub" -> GitHubMethods
      [] cls = "GitLab" -> GitLabMethods
      [] cls = "Gogs"   -> GogsMethods
      [] cls = "JIRA"   -> JIRAMethods

\* The git configuration a run sees: issue.service (unset or a name),
\* whether the service URL can be resolved (issue.<service>.url or the
\* remote's URL), and whether issue.<service>.token / issue.JIRA.key is set.
ServiceNames == Adapters \cup {"Bitbucket"}

Configs ==
    [service : {None} \cup {{n} : n \in ServiceNames},
     url : BOOLEAN, token : BOOLEAN, key : BOOLEAN]

CompleteConfig(cfg) == cfg.url /\ cfg.token /\ cfg.key

\* get_resource / get_repo_owner_name
UrlError(cls) ==
    Raised("GitIssueError", "failed to determine service HTTP URL", <<cls>>)

\* get_token
TokenError(cls) ==
    Raised("GitIssueError", "failed to get {0} API token", <<cls>>)

\* _get_key_
KeyError_(cls) ==
    Raised("GitIssueError", "JIRA project key not set", <<>>)

\* __init__ of each adapter, once the object exists.
GitHubInit(cfg) ==
    IF ~cfg.url THEN UrlError("GitHub")
    ELSE IF ~cfg.token THEN TokenError("GitHub")
    ELSE Returned([cls |-> "GitHub"])

GitLabInit(cfg) ==
    IF ~cfg.url THEN UrlError("GitLab")
    ELSE Returned([cls |-> "GitLab"])

GogsInit(cfg) ==
    IF ~cfg.url THEN UrlError("Gogs")
    ELSE IF ~cfg.token THEN TokenError("Gogs")
    ELSE Returned([cls |-> "Gogs"])

JIRAInit(cfg) ==
    IF ~cfg.key THEN KeyError_("JIRA")
    ELSE IF ~cfg.token THEN TokenError("JIRA")
    ELSE Returned([cls |-> "JIRA"])

\* A class whose abstract methods are not all overridden cannot be
\* instantiated: ABCMeta makes the call raise TypeError before __init__.
AbstractLeft(cls) == ServiceAbstract \ Methods(cls)

NewService(cls, cfg) ==
    IF AbstractLeft(cls) # {}
    THEN Raised("TypeError", "Can't instantiate abstract class",
                <<cls, AbstractLeft(cls)>>)
    ELSE CASE cls = "GitHub" -> GitHubInit(cfg)
           [] cls = "GitLab" -> GitLabInit(cfg)
           [] cls = "Gogs"   -> GogsInit(cfg)
           [] cls = "JIRA"   -> JIRAInit(cfg)

\* The table of get_service: the names it maps to a class.
Registry == {"GitHub", "GitLab", "Gogs"}

\* get_service with a message that lists the names of its table.
get_service_ListsAllowed(cfg) ==
    IF cfg.service = None
    THEN Raised("GitIssueError", "issue service not set", <<>>)
    ELSE LET name == CHOOSE n \in cfg.service : TRUE
         IN  IF name \notin Registry
             THEN Raised("GitIssueError", "invalid issue service: %s",
                         <<"GitHub", "GitLab", "Gogs">>)
             ELSE NewService(name, cfg)

get_service(cfg) ==
    IF cfg.service = None
    THEN Raised("GitIssueError", "issue service not set", <<>>)
    ELSE LET name == CHOOSE n \in cfg.service : TRUE
         IN  IF name \notin Registry
             THEN Raised("GitIssueError", "invalid issue service: %s",
                         <<name>>)
             ELSE NewService(name, cfg)

-----------------------------------------------------------------------------
(* Python dicts. *)

EmptyDict == <<>>

Put(d, k, v) == [x \in DOMAIN d \cup {k} |-> IF x = k THEN v ELSE d[x]]

Pop(d, k) == [x \in DOMAIN d \ {k} |-> d[x]]

Val(o) == CHOOSE v \in o : TRUE

\* The context an operation threads through its calls: the requests issued
\* so far and the module-level caches.
Ctx(log, users, gl, jira) ==
    [log |-> log, users |-> users, gl |-> gl, jira |-> jira]

WithLog(ctx, log) == [ctx EXCEPT !.log = log]

Res(ctx, out) == [ctx |-> ctx, out |-> out]

-----------------------------------------------------------------------------
(* Entities built from backend payloads. *)

UserIds == {1, 2}

\* The detail document GitHub serves for a user.
UserDetail(uid) == [email |-> <<"mail", uid>>, name |-> <<"name", uid>>]

\* The name a backend gives a state in its payloads.
Native(adapter, state) ==
    IF adapter = "GitLab" /\ state = "open" THEN "opened" ELSE state

\* An issue payload: its state, its author, its assignee (or None).
IssuePayloads ==
    [number : {7}, state : {"open", "closed"}, user : {1},
     assignee : {None, {2}}, created : {7}]

GitHubStateColor == [open |-> "green", closed |-> "red", all |-> "reset"]

GitLabStateColor ==
    [open |-> "green", opened |-> "green", closed |-> "red", all |-> "reset"]

GogsStateColor == [closed |-> "red", open |-> "green"]

IssueState(name, color) == [name |-> name, color |-> color]

\* The detail is fetched for every user constructed.
GitHubUser_Refetch(fails, ctx, uid) ==
    LET log1   == Send(fails, ctx.log, "GET", <<"user", uid>>, NoData)
        users1 == IF Last(log1).ok
                  THEN Put(ctx.users, uid, UserDetail(uid))
                  ELSE ctx.users
        more   == IF uid \in DOMAIN users1 THEN {users1[uid]} ELSE None
    IN  Res([ctx EXCEPT !.log = log1, !.users = users1],
            Returned([cls |-> "GitHubUser", id |-> uid,
                      email |-> IF more # None THEN {Val(more).email}
                                ELSE None,
                      name |-> IF more # None THEN {Val(more).name}
                               ELSE None]))

\* GitHubUser(user): the detail is fetched unless cached, cached when the
\* fetch succeeds, and left out of the user when it is not in the cache.
GitHubUser(fails, ctx, uid) ==
    LET miss   == uid \notin DOMAIN ctx.users
        log1   == IF miss
                  THEN Send(fails, ctx.log, "GET", <<"user", uid>>, NoData)
                  ELSE ctx.log
        users1 == IF miss /\ Last(log1).ok
                  THEN Put(ctx.users, uid, UserDetail(uid))
                  ELSE ctx.users
        more   == IF uid \in DOMAIN users1 THEN {users1[uid]} ELSE None
    IN  Res([ctx EXCEPT !.log = log1, !.users = users1],
            Returned([cls |-> "GitHubUser", id |-> uid,
                      email |-> IF more # None THEN {Val(more).email}
                                ELSE None,
                      name |-> IF more # None THEN {Val(more).name}
                               ELSE None]))

\* GitLabUser(user), GogsUser(user): the detail is inline.
InlineUser(cls, uid) ==
    [cls |-> cls, id |-> uid, email |-> None, name |-> {<<"name", uid>>}]

Issue(cls, p, state, author, assignee) ==
    [cls |-> cls, number |-> p.number, state |-> state, author |-> author,
     assignee |-> assignee, created |-> p.created]

\* GitHubIssue(issue, auth, headers): state, author, then assignee.
GitHubIssue(fails, ctx, p) ==
    IF p.state \notin DOMAIN GitHubStateColor
    THEN Res(ctx, Raised("KeyError", "%s", <<p.state>>))
    ELSE LET state  == IssueState(p.state, GitHubStateColor[p.state])
             author == GitHubUser(fails, ctx, p.user)
             assign == IF p.assignee # None
                       THEN GitHubUser(fails, author.ctx, Val(p.assignee))
                       ELSE Res(author.ctx, Returned(None))
         IN  Res(assign.ctx,
                 Returned(Issue("GitHubIssue", p, state, author.out.value,
                                IF p.assignee # None
                                THEN {assign.out.value} ELSE None)))

\* GitLabIssue(issue, url)
GitLabIssue(ctx, p) ==
    IF p.state \notin DOMAIN GitLabStateColor
    THEN Res(ctx, Raised("KeyError", "%s", <<p.state>>))
    ELSE Res(ctx,
             Returned(Issue("GitLabIssue", p,
                            IssueState(p.state, GitLabStateColor[p.state]),
                            InlineUser("GitLabUser", p.user),
                            IF p.assignee # None
                            THEN {InlineUser("GitLabUser", Val(p.assignee))}
                            ELSE None)))

\* GogsIssue(issue, repos_url, header)
GogsIssue(ctx, p) ==
    IF p.state \notin DOMAIN GogsStateColor
    THEN Res(ctx, Raised("KeyError", "%s", <<p.state>>))
    ELSE Res(ctx,
             Returned(Issue("GogsIssue", p,
                            IssueState(p.state, GogsStateColor[p.state]),
                            InlineUser("GogsUser", p.user),
                            IF p.assignee # None
                            THEN {InlineUser("GogsUser", Val(p.assignee))}
                            ELSE None)))

-----------------------------------------------------------------------------
(* Issue.edit *)

\* Labels and milestones as the adapters hold them.  The sentinels are what
\* the label and milestone classes build from no payload.
NoneLabel == [name |-> "none", id |-> 0]

LabelPool == {NoneLabel, [name |-> "bug", id |-> 1], [name |-> "doc", id |-> 2]}

NoneMilestone == [title |-> "none", number |-> 0, id |-> 0]

MilestonePool == {NoneMilestone, [title |-> "v1", number |-> 1, id |-> 11]}

MaxLabels == 2

LabelLists == UNION {[1 .. n -> LabelPool] : n \in 0 .. MaxLabels}

\* The keyword arguments of edit: title and body are None, '' or a text.
EditArgs ==
    [title : {None, {""}, {"t"}}, body : {None, {"b"}},
     assignee : {None, {2}}, labels : LabelLists,
     milestone : {None} \cup {{m} : m \in MilestonePool}]

Names(labels) == [i \in DOMAIN labels |-> labels[i].name]

Ids(labels) == [i \in DOMAIN labels |-> labels[i].id]

\* Only the first label is compared with 'none'.
HasNone_FirstOnly(labels) == Len(labels) > 0 /\ labels[1].name = "none"

\* any([label.name == 'none' for label in labels])
HasNone(labels) == \E i \in DOMAIN labels : labels[i].name = "none"

NoChanges == Raised("GitIssueError", "aborted edit due to no changes", <<>>)

PutIf(d, cond, k, v) == IF cond THEN Put(d, k, v) ELSE d

\* The payload GitHubIssue.edit builds.
GitHubEditData(kw) ==
    LET d1 == PutIf(EmptyDict, Truthy(kw.title), "title", Val(kw.title))
        d2 == PutIf(d1, Truthy(kw.body), "body", Val(kw.body))
        d3 == PutIf(d2, kw.assignee # None, "assignees",
                    <<Val(kw.assignee)>>)
        d4 == PutIf(d3, kw.milestone # None, "milestone",
                    IF Val(kw.milestone).title # "none"
                    THEN {Val(kw.milestone).number} ELSE None)
    IN  PutIf(d4, Len(kw.labels) > 0, "labels",
              IF ~HasNone(kw.labels) THEN Names(kw.labels) ELSE <<>>)

GitHubIssue_edit(fails, ctx, kw, p) ==
    LET data == GitHubEditData(kw)
    IN  IF Cardinality(DOMAIN data) = 0
        THEN Res(ctx, NoChanges)
        ELSE LET log1 == Send(fails, ctx.log, "PATCH", <<"issue", p.number>>,
                              data)
             IN  IF Last(log1).ok
                 THEN GitHubIssue(fails, WithLog(ctx, log1), p)
                 ELSE Res(WithLog(ctx, log1), RaisedResponse(Last(log1)))

\* The payload GitLabIssue.edit builds.  The labels value is the string ''
\* ([str |-> ""]) or a list of names ([list |-> names]).
GitLabEditData(kw) ==
    LET d1 == PutIf(EmptyDict, Truthy(kw.title), "title", Val(kw.title))
        d2 == PutIf(d1, Truthy(kw.body), "description", Val(kw.body))
        d3 == PutIf(d2, kw.assignee # None, "assignee_ids",
                    <<Val(kw.assignee)>>)
        d4 == PutIf(d3, Len(kw.labels) > 0, "labels",
                    IF ~HasNone(kw.labels) THEN [list |-> Names(kw.labels)]
                    ELSE [str |-> ""])
    IN  PutIf(d4, kw.milestone # None, "milestone_id",
              Val(kw.milestone).id)

\* The request is sent before the payload is looked at.
GitLabIssue_edit(fails, ctx, kw, p) ==
    LET data == GitLabEditData(kw)
        log1 == Send(fails, ctx.log, "PUT", <<"issue", p.number>>, data)
    IN  IF Cardinality(DOMAIN data) = 0
        THEN Res(WithLog(ctx, log1), NoChanges)
        ELSE IF Last(log1).ok
        THEN GitLabIssue(WithLog(ctx, log1), p)
        ELSE Res(WithLog(ctx, log1), RaisedResponse(Last(log1)))

\* The payload GogsIssue.edit builds.
GogsEditData(kw) ==
    LET d1 == PutIf(EmptyDict, Truthy(kw.title), "title", Val(kw.title))
        d2 == PutIf(d1, Truthy(kw.body), "body", Val(kw.body))
        d3 == PutIf(d2, kw.assignee # None, "assignee", Val(kw.assignee))
        d4 == PutIf(d3, kw.milestone # None, "milestone",
                    Val(kw.milestone).id)
    IN  PutIf(d4, Len(kw.labels) > 0, "labels",
              IF ~HasNone(kw.labels) THEN Ids(kw.labels) ELSE <<>>)

\* The PATCH of the payload is sent before the labels request.
GogsIssue_edit_PatchFirst(fails, ctx, kw, p) ==
    LET data == GogsEditData(kw)
    IN  IF Cardinality(DOMAIN data) = 0
        THEN Res(ctx, NoChanges)
        ELSE LET labelled == "labels" \in DOMAIN data
                 rest == IF labelled THEN Pop(data, "labels") ELSE data
                 log1 == Send(fails, ctx.log, "PATCH", <<"issue", p.number>>,
                              rest)
                 log2 == IF ~labelled THEN log1
                         ELSE Send(fails, log1, "PUT",
                                   <<"issue/labels", p.number>>,
                                   [labels |-> data.labels])
             IN  IF ~Last(log1).ok
                 THEN Res(WithLog(ctx, log1), RaisedResponse(Last(log1)))
                 ELSE IF ~Last(log2).ok
                 THEN Res(WithLog(ctx, log2), RaisedResponse(Last(log2)))
                 ELSE GogsIssue(WithLog(ctx, log2), p)

\* The labels go through the issue labels API (DELETE all, or PUT the new
\* list), and the rest of the payload through PATCH.
GogsIssue_edit(fails, ctx, kw, p) ==
    LET data == GogsEditData(kw)
    IN  IF Cardinality(DOMAIN data) = 0
        THEN Res(ctx, NoChanges)
        ELSE LET labelled == "labels" \in DOMAIN data
                 log1 == IF ~labelled THEN ctx.log
                         ELSE IF Len(data.labels) = 0
                         THEN Send(fails, ctx.log, "DELETE",
                                   <<"issue/labels", p.number>>, NoData)
                         ELSE Send(fails, ctx.log, "PUT",
                                   <<"issue/labels", p.number>>,
                                   [labels |-> data.labels])
                 rest == IF labelled THEN Pop(data, "labels") ELSE data
             IN  IF labelled /\ ~Last(log1).ok
                 THEN Res(WithLog(ctx, log1), RaisedResponse(Last(log1)))
                 ELSE LET log2 == Send(fails, log1, "PATCH",
                                       <<"issue", p.number>>, rest)
                      IN  IF Last(log2).ok
                          THEN GogsIssue(WithLog(ctx, log2), p)
                          ELSE Res(WithLog(ctx, log2),
                                   RaisedResponse(Last(log2)))

Issue_edit(adapter, fails, ctx, kw, p) ==
    CASE adapter = "GitHub" -> GitHubIssue_edit(fails, ctx, kw, p)
      [] adapter = "GitLab" -> GitLabIssue_edit(fails, ctx, kw, p)
      [] adapter = "Gogs"   -> GogsIssue_edit(fails, ctx, kw, p)

EditAdapters == {"GitHub", "GitLab", "Gogs"}

-----------------------------------------------------------------------------
(* Service.issues *)

MaxPages == 3

PageSizes == {0, 1, 2}

\* What the backend serves for one listing: page k holds chain[k].size
\* issues and a 'next' link to page k + 1 iff chain[k].next.  The last page
\* links nowhere.
Chains ==
    {c \in UNION {[1 .. n -> [size : PageSizes, next : BOOLEAN]] :
                    n \in 1 .. MaxPages} : ~c[Len(c)].next}

\* The states a caller may pass.
StateArgs == {"open", "closed", "all", "bogus", "Done"}

\* The j-th issue of page k of the listing of `bucket', as `adapter's
\* backend serves it.
ListedIssue(adapter, bucket, k, j) ==
    LET n == (IF bucket = "closed" THEN 100 ELSE 0) + 10 * k + j
    IN  [number |-> n,
         state |-> Native(adapter,
                          IF bucket = "closed" THEN "closed" ELSE "open"),
         user |-> (n % 2) + 1, assignee |-> None, created |-> n]

PageIssues(adapter, chain, bucket, k) ==
    [j \in 1 .. chain[k].size |-> ListedIssue(adapter, bucket, k, j)]

\* The query of a listing request.
Query(bucket) == [state |-> bucket]

\* A 'next' link is assumed whenever the backend has a further page.
NextUrl_Assumed(chain, k) == IF k < Len(chain) THEN {k + 1} ELSE None

\* The 'next' link of a response is followed; without one the loop ends.
NextUrl(chain, k) == IF chain[k].next THEN {k + 1} ELSE None

\* A page was answered with a failure, and what was collected is returned.
PageFailed_ReturnsCollected(ctx, log, issues) ==
    Res(WithLog(ctx, log), Returned(issues))

\* A page was answered with a failure: raise GitIssueError(response).
PageFailed(ctx, log, issues) ==
    Res(WithLog(ctx, log), RaisedResponse(Last(log)))

\* The later item is the lesser one.
Item_lt_Later(self, other) == self.created > other.created

\* __lt__ of Issue, IssueComment and IssueEvent
Item_lt(self, other) == self.created < other.created

\* The insertion sorted() makes of an item into items already in order.
RECURSIVE InsertSorted(_, _)
InsertSorted(x, s) ==
    IF s = <<>> THEN <<x>>
    ELSE IF Item_lt(x, Head(s)) THEN <<x>> \o s
    ELSE <<Head(s)>> \o InsertSorted(x, Tail(s))

\* sorted(issues), by Issue.__lt__
RECURSIVE Sorted(_)
Sorted(s) ==
    IF s = <<>> THEN <<>>
    ELSE InsertSorted(s[Len(s)], Sorted(SubSeq(s, 1, Len(s) - 1)))

Reversed(s) == [i \in 1 .. Len(s) |-> s[Len(s) + 1 - i]]

\* [GitHubIssue(issue, ...) for issue in response.json()]
RECURSIVE GitHubIssueList(_, _, _, _)
GitHubIssueList(fails, ctx, ps, acc) ==
    IF ps = <<>> THEN Res(ctx, Returned(acc))
    ELSE LET r == GitHubIssue(fails, ctx, Head(ps))
         IN  IF r.out.kind = "raised" THEN r
             ELSE GitHubIssueList(fails, r.ctx, Tail(ps),
                                  Append(acc, r.out.value))

\* The loop of GitHub.issues, about to request page k.
RECURSIVE GitHubPages(_, _, _, _, _, _)
GitHubPages(fails, ctx, chain, state, k, issues) ==
    LET log1 == Send(fails, ctx.log, "GET", <<"issues", k>>, Query(state))
    IN  IF ~Last(log1).ok
        THEN PageFailed(ctx, log1, issues)
        ELSE LET r == GitHubIssueList(fails, WithLog(ctx, log1),
                                      PageIssues("GitHub", chain, state, k), <<>>)
             IN  IF r.out.kind = "raised" THEN r
                 ELSE IF NextUrl(chain, k) # None
                 THEN GitHubPages(fails, r.ctx, chain, state,
                                  Val(NextUrl(chain, k)),
                                  issues \o r.out.value)
                 ELSE Res(r.ctx, Returned(issues \o r.out.value))

GitHubStates == <<"open", "closed", "all">>

Range(s) == {s[i] : i \in DOMAIN s}

\* The state is not checked.
GitHub_issues_Unchecked(fails, ctx, state, chain) ==
    GitHubPages(fails, ctx, chain, state, 1, <<>>)

GitHub_issues(fails, ctx, state, chain) ==
    IF state \notin Range(GitHubStates)
    THEN Res(ctx, Raised("GitIssueError", "state must be one of %s",
                         <<GitHubStates>>))
    ELSE GitHubPages(fails, ctx, chain, state, 1, <<>>)

\* [Cls(issue, ...) for issue in response.json()], for the adapters whose
\* issue constructor issues no request.
RECURSIVE IssueList(_, _, _, _)
IssueList(cls, ctx, ps, acc) ==
    IF ps = <<>> THEN Res(ctx, Returned(acc))
    ELSE LET r == IF cls = "GitLabIssue" THEN GitLabIssue(ctx, Head(ps))
                  ELSE GogsIssue(ctx, Head(ps))
         IN  IF r.out.kind = "raised" THEN r
             ELSE IssueList(cls, r.ctx, Tail(ps), Append(acc, r.out.value))

\* _encode_state_
GitLabEncodeState(bucket) == IF bucket = "open" THEN "opened" ELSE bucket

\* The loops of GitLab.issues and Gogs.issues: over the state buckets, and
\* within a bucket over its pages; about to request page k of the first of
\* `buckets'.
RECURSIVE BucketPages(_, _, _, _, _, _, _)
BucketPages(cls, fails, ctx, chain, buckets, k, issues) ==
    IF buckets = <<>> THEN Res(ctx, Returned(issues))
    ELSE
    LET bucket == Head(buckets)
        query  == IF cls = "GitLabIssue"
                  THEN Query(GitLabEncodeState(bucket)) ELSE Query(bucket)
        log1   == Send(fails, ctx.log, "GET", <<"issues", k>>, query)
    IN  IF ~Last(log1).ok
        THEN PageFailed(ctx, log1, issues)
        ELSE LET r == IssueList(cls, WithLog(ctx, log1),
                                PageIssues(IF cls = "GitLabIssue"
                                           THEN "GitLab" ELSE "Gogs",
                                           chain, bucket, k), <<>>)
             IN  IF r.out.kind = "raised" THEN r
                 ELSE IF NextUrl(chain, k) # None
                 THEN BucketPages(cls, fails, r.ctx, chain, buckets,
                                  Val(NextUrl(chain, k)),
                                  issues \o r.out.value)
                 ELSE BucketPages(cls, fails, r.ctx, chain, Tail(buckets),
                                  1, issues \o r.out.value)

StateBuckets ==
    [open |-> <<"open">>, closed |-> <<"closed">>,
     all |-> <<"open", "closed">>]

SortedResult(r) ==
    IF r.out.kind = "raised" THEN r
    ELSE Res(r.ctx, Returned(Reversed(Sorted(r.out.value))))

\* CACHE['labels'] = self.labels(), a failure of which is ignored.
GitLabPrimeLabels(fails, ctx) ==
    LET log1 == Send(fails, ctx.log, "GET", <<"labels", 0>>, NoData)
    IN  IF Last(log1).ok
        THEN [ctx EXCEPT !.log = log1, !.gl = @ \cup {"labels"}]
        ELSE WithLog(ctx, log1)

\* GitLab.states()
GitLab_states == <<"open", "closed", "all">>

GitLab_issues(fails, ctx, state, chain) ==
    IF state \notin {"open", "closed"}
    THEN Res(ctx, Raised("GitIssueError", "invalid issue state: %s",
                         <<state>>))
    ELSE SortedResult(BucketPages("GitLabIssue", fails,
                                  GitLabPrimeLabels(fails, ctx), chain,
                                  StateBuckets[state], 1, <<>>))

Gogs_issues(fails, ctx, state, chain) ==
    IF state \notin {"open", "closed", "all"}
    THEN Res(ctx, Raised("ValueError",
                         "state must be a string and one of ...", <<>>))
    ELSE SortedResult(BucketPages("GogsIssue", fails, ctx, chain,
                                  StateBuckets[state], 1, <<>>))

\* JIRA: the statuses the backend knows, and the page size and total of a
\* search.
JiraStatuses == <<"To Do", "Done">>

MaxTotal == 3

JiraPageSizes == {1, 2}

JIRAIssue(ctx, p) ==
    Res(ctx, Returned(Issue("JIRAIssue", p, IssueState(p.state, "blue"),
                            InlineUser("JIRAUser", p.user), None)))

\* JIRA.states(): one GET of the statuses.
JIRA_states(fails, ctx) ==
    LET log1 == Send(fails, ctx.log, "GET", <<"status", 0>>, NoData)
    IN  IF Last(log1).ok
        THEN Res(WithLog(ctx, log1), Returned(JiraStatuses))
        ELSE Res(WithLog(ctx, log1), RaisedResponse(Last(log1)))

\* The JQL filter of a state.
Jql(state) ==
    CASE state = "open"   -> "statusCategory!=Done"
      [] state = "closed" -> "statusCategory=Done"
      [] state = "all"    -> ""
      [] OTHER            -> <<"status=", state>>

Min(a, b) == IF a < b THEN a ELSE b

\* The issues a search answers from offset start_at.
SearchIssues(start_at, maxResults, total) ==
    [j \in 1 .. (Min(start_at + maxResults, total) - Min(start_at, total)) |->
        [number |-> start_at + j, state |-> "To Do", user |-> 1,
         assignee |-> None, created |-> start_at + j]]

\* The loop ends after the first page.
SearchDone_FirstPage(start_at, total) == TRUE

\* if start_at > result['total']: break
SearchDone(start_at, total) == start_at > total

\* The loop of JIRA.issues, about to search from start_at.
RECURSIVE JIRASearch(_, _, _, _, _, _, _)
JIRASearch(fails, ctx, state, maxResults, total, start_at, issues) ==
    LET log1 == Send(fails, ctx.log, "GET", <<"search", start_at>>,
                     [jql |-> Jql(state)])
    IN  IF ~Last(log1).ok
        THEN PageFailed(ctx, log1, issues)
        ELSE LET got == issues \o SearchIssues(start_at, maxResults, total)
             IN  IF SearchDone(start_at + maxResults, total)
                 THEN Res(WithLog(ctx, log1), Returned(got))
                 ELSE JIRASearch(fails, WithLog(ctx, log1), state, maxResults,
                                 total, start_at + maxResults, got)

JIRA_issues(fails, ctx, state, maxResults, total) ==
    LET st == JIRA_states(fails, ctx)
    IN  IF st.out.kind = "raised" THEN st
        ELSE LET states == <<"open", "closed", "all">> \o st.out.value
             IN  IF state \notin Range(states)
                 THEN Res(st.ctx, Raised("GitIssueError",
                                         "state must be one of %s",
                                         <<states>>))
                 ELSE LET r == JIRASearch(fails, st.ctx, state, maxResults,
                                          total, 0, <<>>)
                      IN  IF r.out.kind = "raised" THEN r
                          ELSE Res(r.ctx,
                                   Returned([i \in DOMAIN r.out.value |->
                                       JIRAIssue(r.ctx,
                                                 r.out.value[i]).out.value]))

-----------------------------------------------------------------------------
(* Service.issue *)

\* A response that is not the expected one is taken for a success that
\* carries nothing.
Failed_Ignored(ctx, log) == Res(WithLog(ctx, log), Returned(None))

\* else: raise GitIssueError(response)
Failed(ctx, log) == Res(WithLog(ctx, log), RaisedResponse(Last(log)))

GitHub_issue(fails, ctx, p) ==
    LET log1 == Send(fails, ctx.log, "GET", <<"issue", p.number>>, NoData)
    IN  IF Last(log1).ok THEN GitHubIssue(fails, WithLog(ctx, log1), p)
        ELSE Failed(ctx, log1)

\* CACHE['labels'] = self.labels(); CACHE['milestones'] = self.milestones()
\* in one try block whose GitIssueError is dropped.
GitLabPrimeCaches(fails, ctx) ==
    LET c1 == GitLabPrimeLabels(fails, ctx)
    IN  IF ~Last(c1.log).ok THEN c1
        ELSE LET log2 == Send(fails, c1.log, "GET", <<"milestones", 0>>,
                              NoData)
             IN  IF Last(log2).ok
                 THEN [c1 EXCEPT !.log = log2, !.gl = @ \cup {"milestones"}]
                 ELSE WithLog(c1, log2)

GitLab_issue(fails, ctx, p) ==
    LET c1   == GitLabPrimeCaches(fails, ctx)
        log2 == Send(fails, c1.log, "GET", <<"issue", p.number>>, NoData)
    IN  IF Last(log2).ok THEN GitLabIssue(WithLog(c1, log2), p)
        ELSE Failed(c1, log2)

Gogs_issue(fails, ctx, p) ==
    LET log1 == Send(fails, ctx.log, "GET", <<"issue", p.number>>, NoData)
    IN  IF Last(log1).ok THEN GogsIssue(WithLog(ctx, log1), p)
        ELSE Failed(ctx, log1)

\* The statuses are probed unless cached; when the probe succeeds they are
\* fetched by self.states() and cached.
JIRAPrimeStates(fails, ctx) ==
    IF "states" \in ctx.jira THEN Res(ctx, Returned(None))
    ELSE LET log1 == Send(fails, ctx.log, "GET", <<"status", 0>>, NoData)
         IN  IF ~Last(log1).ok THEN Res(WithLog(ctx, log1), Returned(None))
             ELSE LET st == JIRA_states(fails, WithLog(ctx, log1))
                  IN  IF st.out.kind = "raised" THEN st
                      ELSE Res([st.ctx EXCEPT !.jira = @ \cup {"states"}],
                               Returned(None))

JIRA_issue(fails, ctx, p) ==
    LET pr == JIRAPrimeStates(fails, ctx)
    IN  IF pr.out.kind = "raised" THEN pr
        ELSE LET log2 == Send(fails, pr.ctx.log, "GET",
                              <<"issue", p.number>>, NoData)
             IN  IF Last(log2).ok THEN JIRAIssue(WithLog(pr.ctx, log2), p)
                 ELSE Failed(pr.ctx, log2)

Service_issue(adapter, fails, ctx, p) ==
    CASE adapter = "GitHub" -> GitHub_issue(fails, ctx, p)
      [] adapter = "GitLab" -> GitLab_issue(fails, ctx, p)
      [] adapter = "Gogs"   -> Gogs_issue(fails, ctx, p)
      [] adapter = "JIRA"   -> JIRA_issue(fails, ctx, p)

-----------------------------------------------------------------------------
(* GogsIssue.comments and GogsIssue.events *)

MaxComments == 3

\* The interpreters the package installs on.
PythonVersions == {2, 3}

\* An empty body marks a state change, any other body a comment.
Bodies == {"", "note"}

\* Entries are numbered as they were created; the backend lists them in
\* some order.
CommentLists ==
    UNION {{[k \in 1 .. n |-> [body |-> b[k], created_at |-> c[k],
                               id |-> c[k]]] :
              b \in [1 .. n -> Bodies],
              c \in {f \in [1 .. n -> 1 .. n] :
                        \A i, j \in 1 .. n : f[i] = f[j] => i = j}} :
           n \in 0 .. MaxComments}

\* A str value, as opposed to an object.
Str(s) == [str |-> s]

IsStr(v) == DOMAIN v = {"str"}

\* d[key] of a dict whose keys are str: an object that defines neither
\* __eq__ nor __hash__ equals none of them.
Subscript(d, key) ==
    IF IsStr(key) /\ key.str \in DOMAIN d THEN Returned(d[key.str])
    ELSE Raised("KeyError", "%r", <<key>>)

\* Python 2 orders two dicts of equal size by the value at the least key
\* at which they differ: 'body', then 'created_at', then 'id'.
DictLess(a, b) ==
    IF a.body # b.body THEN a.body = ""
    ELSE IF a.created_at # b.created_at THEN a.created_at < b.created_at
    ELSE a.id < b.id

\* sorted() of a list of dicts; Python 3 has no order between dicts.
SortedDicts(py, s) ==
    IF py = 3 /\ Len(s) > 1
    THEN Raised("TypeError", "'<' not supported between %s and %s",
                <<"dict", "dict">>)
    ELSE Returned([i \in 1 .. Len(s) |->
                     CHOOSE x \in Range(s) :
                        Cardinality({y \in Range(s) : DictLess(y, x)})
                            = i - 1])

GogsIssueComment(comment) ==
    [cls |-> "GogsIssueComment", body |-> comment.body,
     created |-> comment.created_at]

GogsIssueEvent(action, event) ==
    [cls |-> "GogsIssueEvent", event |-> action,
     created |-> event.created_at]

\* The comments are fetched by every call.
GogsIssue_cached_Refetch(fails, ctx, inst, served) ==
    LET log1 == Send(fails, ctx.log, "GET", <<"comments", 0>>, NoData)
    IN  IF Last(log1).ok
        THEN [ctx |-> WithLog(ctx, log1), out |-> Returned(None),
              inst |-> [inst EXCEPT !.cache = Put(@, "comments", served)]]
        ELSE [ctx |-> WithLog(ctx, log1),
              out |-> RaisedResponse(Last(log1)), inst |-> inst]

\* self._comments_() unless the cache holds the comments; `inst' is the
\* issue, `served' the list the backend answers with.
GogsIssue_cached(fails, ctx, inst, served) ==
    IF "comments" \in DOMAIN inst.cache
    THEN [ctx |-> ctx, out |-> Returned(None), inst |-> inst]
    ELSE LET log1 == Send(fails, ctx.log, "GET", <<"comments", 0>>, NoData)
         IN  IF Last(log1).ok
             THEN [ctx |-> WithLog(ctx, log1), out |-> Returned(None),
                   inst |-> [inst EXCEPT
                               !.cache = Put(@, "comments", served)]]
             ELSE [ctx |-> WithLog(ctx, log1),
                   out |-> RaisedResponse(Last(log1)), inst |-> inst]

GogsIssue_comments(fails, ctx, inst, served) ==
    LET c == GogsIssue_cached(fails, ctx, inst, served)
    IN  IF c.out.kind = "raised" THEN c
        ELSE [c EXCEPT !.out =
                Returned(SelectSeq([i \in DOMAIN c.inst.cache.comments |->
                                      GogsIssueComment(
                                          c.inst.cache.comments[i])],
                                   LAMBDA x : x.body # ""))]

RECURSIVE GogsEventLoop(_, _, _)
\* The loop of events() over what is left of the entries.
GogsEventLoop(entries, state, events) ==
    IF entries = <<>> THEN Returned(events)
    ELSE IF Head(entries).body # ""
    THEN GogsEventLoop(Tail(entries), state, events)
    ELSE LET action == Subscript([open |-> "reopened", closed |-> "closed"],
                                 state)
             other  == Subscript([open |-> "closed", closed |-> "open"],
                                 state)
         IN  IF action.kind = "raised" THEN action
             ELSE GogsEventLoop(Tail(entries), Str(other.value),
                                Append(events,
                                       GogsIssueEvent(action.value,
                                                      Head(entries))))

GogsIssue_events(fails, ctx, py, inst, served) ==
    LET c == GogsIssue_cached(fails, ctx, inst, served)
    IN  IF c.out.kind = "raised" THEN c
        ELSE LET sorted == SortedDicts(py, c.inst.cache.comments)
             IN  IF sorted.kind = "raised" THEN [c EXCEPT !.out = sorted]
                 ELSE [c EXCEPT !.out =
                         GogsEventLoop(Reversed(sorted.value),
                                       c.inst.state, <<>>)]

-----------------------------------------------------------------------------
(* Service.user_search *)

MaxUsers == 2

\* The users the backend reports as matching a keyword.
UserMatches == UNION {[1 .. n -> UserIds] : n \in 0 .. MaxUsers}

\* [GitHubUser(user) for user in response.json()['items']]
RECURSIVE GitHubUserList(_, _, _, _)
GitHubUserList(fails, ctx, uids, acc) ==
    IF uids = <<>> THEN Res(ctx, Returned(acc))
    ELSE LET r == GitHubUser(fails, ctx, Head(uids))
         IN  GitHubUserList(fails, r.ctx, Tail(uids),
                            Append(acc, r.out.value))

UserNotFound == Raised("GitIssueError", "unable to find user: %s", <<>>)

GitHub_user_search(fails, ctx, matches) ==
    LET log1 == Send(fails, ctx.log, "GET", <<"search/users", 0>>, NoData)
    IN  IF Last(log1).ok
        THEN GitHubUserList(fails, WithLog(ctx, log1), matches, <<>>)
        ELSE Failed(ctx, log1)

GitLab_user_search(fails, ctx, matches) ==
    LET log1 == Send(fails, ctx.log, "GET", <<"users", 0>>, NoData)
    IN  IF ~Last(log1).ok THEN Failed(ctx, log1)
        ELSE IF Len(matches) = 0 THEN Res(WithLog(ctx, log1), UserNotFound)
        ELSE Res(WithLog(ctx, log1),
                 Returned([i \in DOMAIN matches |->
                             InlineUser("GitLabUser", matches[i])]))

Gogs_user_search(fails, ctx, matches) ==
    LET log1 == Send(fails, ctx.log, "GET", <<"users/search", 0>>, NoData)
    IN  IF ~Last(log1).ok THEN Failed(ctx, log1)
        ELSE IF Len(matches) = 0 THEN Res(WithLog(ctx, log1), UserNotFound)
        ELSE Res(WithLog(ctx, log1),
                 Returned([i \in DOMAIN matches |->
                             InlineUser("GogsUser", matches[i])]))

\* JIRAUser(response.json()): the answer of the search, a list, is
\* subscripted with the field names of one user.
JIRA_user_search(fails, ctx, matches) ==
    LET log1 == Send(fails, ctx.log, "GET", <<"user/search", 0>>, NoData)
    IN  IF ~Last(log1).ok THEN Failed(ctx, log1)
        ELSE Res(WithLog(ctx, log1),
                 Raised("TypeError", "list indices must be integers",
                        <<>>))

Service_user_search(adapter, fails, ctx, matches) ==
    CASE adapter = "GitHub" -> GitHub_user_search(fails, ctx, matches)
      [] adapter = "GitLab" -> GitLab_user_search(fails, ctx, matches)
      [] adapter = "Gogs"   -> Gogs_user_search(fails, ctx, matches)
      [] adapter = "JIRA"   -> JIRA_user_search(fails, ctx, matches)


-----------------------------------------------------------------------------
(* Service.create *)

\* Python values by their type: None, an int, a list (a str is Str(s)),
\* and an object of one of the adapter's classes.
PyNone == [NoneType |-> 0]

PyInt(n) == [int |-> n]

PyList(s) == [list |-> s]

Obj(adapter, kind, v) == [cls |-> <<adapter, kind>>, obj |-> v]

\* isinstance(x, <the adapter's class of that kind>)
IsA(x, adapter, kind) ==
    DOMAIN x = {"cls", "obj"} /\ x.cls = <<adapter, kind>>

\* bool(x): None, '' and [] are false, an object is true.
IsTrue(x) ==
    /\ x # PyNone
    /\ x # Str("")
    /\ x # PyList(<<>>)

\* Values a caller may pass to create of `adapter'.  Users, labels and
\* milestones of the adapter's classes, and values of other types.
CreateArgs(adapter) ==
    [title : {Str("t"), Str(""), PyNone, PyInt(5)},
     body : {Str("b"), PyNone},
     assignee : {PyNone, Obj(adapter, "User", 2), Str("bob")},
     labels : {PyList(<<>>),
               PyList(<<Obj(adapter, "Label", [name |-> "bug", id |-> 1])>>),
               PyList(<<Str("bug")>>), PyNone},
     milestone : {PyNone,
                  Obj(adapter, "Milestone",
                      [title |-> "v1", number |-> 1, id |-> 11]),
                  Str("v1"), Str("")}]

\* The first check of create that fails, as a set: the title, the body,
\* _check_assignee_, then _check_milestone_ and _check_labels_ in the
\* order the adapter calls them.
CreateInvalid(adapter, kw) ==
    LET title     == IF ~IsStr(kw.title)
                     THEN {Raised("ValueError", "title must be a string",
                                  <<>>)}
                     ELSE None
        body      == IF ~IsStr(kw.body)
                     THEN {Raised("ValueError", "body must be a string",
                                  <<>>)}
                     ELSE None
        assignee  == IF IsTrue(kw.assignee)
                        /\ ~IsA(kw.assignee, adapter, "User")
                     THEN {Raised(IF adapter = "Gogs" THEN "ValueError"
                                  ELSE "GitIssueError",
                                  "assignee must be an instance of %s",
                                  <<adapter>>)}
                     ELSE None
        milestone == IF IsTrue(kw.milestone)
                        /\ ~IsA(kw.milestone, adapter, "Milestone")
                     THEN {Raised("ValueError",
                                  "milestone must be an instance of %s",
                                  <<adapter>>)}
                     ELSE None
        labels    == IF \/ DOMAIN kw.labels # {"list"}
                        \/ \E i \in DOMAIN kw.labels.list :
                              ~IsA(kw.labels.list[i], adapter, "Label")
                     THEN {Raised("ValueError",
                                  "labels must be a list of %s instances",
                                  <<adapter>>)}
                     ELSE None
        checks    == IF adapter = "GitHub"
                     THEN <<title, body, assignee, milestone, labels>>
                     ELSE <<title, body, assignee, labels, milestone>>
        failing   == {i \in DOMAIN checks : checks[i] # None}
    IN  IF failing = {} THEN None
        ELSE checks[CHOOSE i \in failing : \A j \in failing : i <= j]

\* The payload create builds from checked arguments.
CreateData(adapter, kw) ==
    LET d0 == Put(Put(EmptyDict, "title", kw.title.str),
                  IF adapter = "GitLab" THEN "description" ELSE "body",
                  kw.body.str)
        d1 == PutIf(d0, IsTrue(kw.assignee),
                    CASE adapter = "GitHub" -> "assignees"
                      [] adapter = "GitLab" -> "assignee_ids"
                      [] adapter = "Gogs"   -> "assignee",
                    IF adapter = "Gogs" THEN kw.assignee.obj
                    ELSE <<kw.assignee.obj>>)
        d2 == PutIf(d1, IsTrue(kw.milestone),
                    IF adapter = "GitLab" THEN "milestone_id"
                    ELSE "milestone",
                    IF adapter = "GitHub" THEN kw.milestone.obj.number
                    ELSE kw.milestone.obj.id)
    IN  PutIf(d2, IsTrue(kw.labels), "labels",
              [i \in DOMAIN kw.labels.list |->
                 IF adapter = "Gogs" THEN kw.labels.list[i].obj.id
                 ELSE kw.labels.list[i].obj.name])

\* The checks are made after the request.
Service_create_ChecksLate(adapter, fails, ctx, kw, p) ==
    IF adapter = "JIRA"
    THEN Res(ctx, Raised("NotImplementedError", "", <<>>))
    ELSE LET log1 == Send(fails, ctx.log, "POST", <<"issues", 0>>, NoData)
         IN  IF CreateInvalid(adapter, kw) # None
             THEN Res(WithLog(ctx, log1), Val(CreateInvalid(adapter, kw)))
             ELSE IF ~Last(log1).ok THEN Failed(ctx, log1)
             ELSE Service_issue(adapter, {}, WithLog(ctx, log1), p)

\* create(title, body, **kwargs) of each adapter; the backend answers 201
\* with the payload p of the new issue.
Service_create(adapter, fails, ctx, kw, p) ==
    IF adapter = "JIRA"
    THEN Res(ctx, Raised("NotImplementedError", "", <<>>))
    ELSE IF CreateInvalid(adapter, kw) # None
    THEN Res(ctx, Val(CreateInvalid(adapter, kw)))
    ELSE LET log1 == Send(fails, ctx.log, "POST", <<"issues", 0>>,
                          CreateData(adapter, kw))
         IN  IF ~Last(log1).ok THEN Failed(ctx, log1)
             ELSE CASE adapter = "GitHub" ->
                         GitHubIssue(fails, WithLog(ctx, log1), p)
                    [] adapter = "GitLab" ->
                         GitLabIssue(WithLog(ctx, log1), p)
                    [] adapter = "Gogs" ->
                         GogsIssue(WithLog(ctx, log1), p)


-----------------------------------------------------------------------------
(* Milestone *)

\* Readings of the clock.
Clock == {1, 2}

\* '%s' % utcnow(): the ISO 8601 text of a reading of the clock.
IsoFormat(t) == <<"iso", t>>

\* The dict each milestone class puts in place of a missing payload.
SentinelMilestone(adapter, now) ==
    CASE adapter = "GitHub" ->
            [title |-> "none", description |-> "",
             due_on |-> IsoFormat(now), state |-> "closed", number |-> 0,
             id |-> 0]
      [] adapter = "GitLab" ->
            [title |-> "none", description |-> "",
             due_date |-> IsoFormat(now), state |-> "closed", id |-> 0]
      [] adapter = "Gogs" ->
            [title |-> "none", description |-> "",
             due_on |-> IsoFormat(now), state |-> "closed", id |-> 0]

\* A milestone as the backend of each adapter serves it.
BackendMilestone(adapter) ==
    CASE adapter = "GitHub" ->
            [title |-> "v1", description |-> "", due_on |-> IsoFormat(0),
             state |-> "open", number |-> 1, id |-> 11]
      [] adapter = "GitLab" ->
            [title |-> "v1", description |-> "", due_date |-> IsoFormat(0),
             state |-> "active", id |-> 11, iid |-> 1]
      [] adapter = "Gogs" ->
            [title |-> "v1", description |-> "", due_on |-> IsoFormat(0),
             state |-> "open", id |-> 11]

\* The keys __init__ of each class reads, in the order it reads them.
MilestoneKeys(adapter) ==
    CASE adapter = "GitHub" ->
            <<"title", "description", "due_on", "state", "number", "id">>
      [] adapter = "GitLab" ->
            <<"title", "description", "due_date", "state", "id", "iid">>
      [] adapter = "Gogs" ->
            <<"title", "description", "due_on", "state", "id">>

\* GitHubMilestone(milestone), GitLabMilestone(milestone),
\* GogsMilestone(milestone); `milestone' is None or a payload.
NewMilestone(adapter, milestone, now) ==
    LET m       == IF milestone = None THEN SentinelMilestone(adapter, now)
                   ELSE Val(milestone)
        keys    == MilestoneKeys(adapter)
        missing == {i \in DOMAIN keys : keys[i] \notin DOMAIN m}
    IN  IF missing # {}
        THEN Raised("KeyError", "%r",
                    <<keys[CHOOSE i \in missing : \A j \in missing : i <= j]>>)
        ELSE Returned([cls |-> <<adapter, "Milestone">>, title |-> m.title,
                       state |-> m.state, due |-> m[keys[3]], id |-> m.id])


-----------------------------------------------------------------------------
(* Label *)

MaxColorLen == 7

\* The digits of '%x', and the characters color strings are drawn from: a
\* lower-case and an upper-case digit, a sign and a character int() rejects.
HexDigits ==
    <<"0", "1", "2", "3", "4", "5", "6", "7", "8", "9", "a", "b", "c", "d",
      "e", "f">>

UpperDigits == <<"A", "B", "C", "D", "E", "F">>

ColorChars == {"a", "F", "+", "g"}

\* The values given as the color of a label: strings of about six
\* characters, and None.
LabelColors ==
    {PyNone} \cup
    {Str(s) : s \in UNION {[1 .. n -> ColorChars] :
                             n \in 5 .. MaxColorLen}}

\* The value of a hexadecimal digit, as a set: empty for any other
\* character.
DigitValue(c) ==
    {i - 1 : i \in {j \in DOMAIN HexDigits : HexDigits[j] = c}} \cup
    {i + 9 : i \in {j \in DOMAIN UpperDigits : UpperDigits[j] = c}}

\* int(s, 16) of a string of two characters: two digits, or a sign or a
\* blank and a digit.
Int16(s) ==
    LET hi == DigitValue(s[1])
        lo == DigitValue(s[2])
    IN  IF hi # {} /\ lo # {} THEN Returned(16 * Val(hi) + Val(lo))
        ELSE IF s[1] \in {"+", " "} /\ lo # {} THEN Returned(Val(lo))
        ELSE IF s[1] = "-" /\ lo # {} THEN Returned(0 - Val(lo))
        ELSE IF s[2] = " " /\ hi # {} THEN Returned(Val(hi))
        ELSE Raised("ValueError", "invalid literal for int() with base 16",
                    <<s>>)

\* Label.__init__(name, color), the name being a string.
Label(name, color) ==
    IF ~IsStr(color) \/ Len(color.str) # 6
    THEN Raised("ValueError", "color must be a 6 character string", <<>>)
    ELSE LET red   == Int16(SubSeq(color.str, 1, 2))
             green == Int16(SubSeq(color.str, 3, 4))
             blue  == Int16(SubSeq(color.str, 5, 6))
         IN  IF red.kind = "raised" THEN red
             ELSE IF green.kind = "raised" THEN green
             ELSE IF blue.kind = "raised" THEN blue
             ELSE Returned([name |-> name,
                            color |-> [red |-> red.value,
                                       green |-> green.value,
                                       blue |-> blue.value]])

\* '%02x' % n
Hex2(n) ==
    IF n < 0 THEN <<"-", HexDigits[(0 - n) + 1]>>
    ELSE IF n < 16 THEN <<"0", HexDigits[n + 1]>>
    ELSE <<HexDigits[(n \div 16) + 1], HexDigits[(n % 16) + 1]>>

\* '%02x%02x%02x' % color
EncodeColor(color) == Hex2(color.red) \o Hex2(color.green) \o Hex2(color.blue)


-----------------------------------------------------------------------------
(* _hex_to_color_ and _hex_to_term_ *)

\* Values of a channel on both sides of every threshold of _quantize_:
\* 0x00, 0x40, 0x41, 0x80, 0x81, 0xbe, 0xbf, 0xff.
Channels == {0, 64, 65, 128, 129, 190, 191, 255}

\* 0x80 is quantized to 0xff.
Quantize_HalfUp(c) ==
    IF c <= 64 THEN 0
    ELSE IF c < 128 THEN 128
    ELSE IF c <= 255 THEN 255
    ELSE c

\* _quantize_(color)
Quantize(c) ==
    IF c <= 64 THEN 0
    ELSE IF c <= 128 \/ c < 191 THEN 128
    ELSE IF c <= 255 THEN 255
    ELSE c

\* The pass is left out.
Normalize_Skipped(color, upper) == color

\* _normalize_(color, upper)
Normalize(color, upper) ==
    IF \E i \in 1 .. 3 : color[i] = upper
    THEN [i \in 1 .. 3 |-> IF color[i] # upper THEN 0 ELSE color[i]]
    ELSE color

\* The 0xff pass is left out.
QuantizedColor_OnePass(color) ==
    Normalize(<<Quantize(color.red), Quantize(color.green),
                Quantize(color.blue)>>, 128)

\* The list both functions look up: the channels quantized, then the
\* 0xff and the 0x80 pass.
QuantizedColor(color) ==
    Normalize(Normalize(<<Quantize(color.red), Quantize(color.green),
                          Quantize(color.blue)>>, 255), 128)

\* The table of _hex_to_color_.
ColorTable ==
    (<<0, 0, 0>> :> "black") @@ (<<0, 0, 128>> :> "blue") @@
    (<<0, 128, 0>> :> "green") @@ (<<0, 128, 128>> :> "cyan") @@
    (<<128, 0, 0>> :> "red") @@ (<<128, 0, 128>> :> "magenta") @@
    (<<128, 128, 0>> :> "yellow") @@ (<<128, 128, 128>> :> "lightblack") @@
    (<<0, 0, 255>> :> "lightblue") @@ (<<0, 255, 0>> :> "lightgreen") @@
    (<<0, 255, 255>> :> "lightcyan") @@ (<<255, 0, 0>> :> "lightred") @@
    (<<255, 0, 255>> :> "lightmagenta") @@
    (<<255, 255, 0>> :> "lightyellow") @@
    (<<255, 255, 255>> :> "lightwhite")

\* The table of _hex_to_term_.
TermTable ==
    (<<0, 0, 0>> :> "Fore.RESET") @@ (<<0, 0, 128>> :> "Fore.BLUE") @@
    (<<0, 128, 0>> :> "Fore.GREEN") @@ (<<0, 128, 128>> :> "Fore.CYAN") @@
    (<<128, 0, 0>> :> "Fore.RED") @@ (<<128, 0, 128>> :> "Fore.MAGENTA") @@
    (<<128, 128, 0>> :> "Fore.YELLOW") @@
    (<<128, 128, 128>> :> "Fore.LIGHTBLACK_EX") @@
    (<<0, 0, 255>> :> "Fore.LIGHTBLUE_EX") @@
    (<<0, 255, 0>> :> "Fore.LIGHTGREEN_EX") @@
    (<<0, 255, 255>> :> "Fore.LIGHTCYAN_EX") @@
    (<<255, 0, 0>> :> "Fore.LIGHTRED_EX") @@
    (<<255, 0, 255>> :> "Fore.LIGHTMAGENTA_EX") @@
    (<<255, 255, 0>> :> "Fore.LIGHTYELLOW_EX") @@
    (<<255, 255, 255>> :> "Fore.LIGHTWHITE_EX")

\* table[tuple(color)]
Lookup(table, key) ==
    IF key \in DOMAIN table THEN Returned(table[key])
    ELSE Raised("KeyError", "%r", key)

_hex_to_color_(color) == Lookup(ColorTable, QuantizedColor(color))

_hex_to_term_(color) == Lookup(TermTable, QuantizedColor(color))


-----------------------------------------------------------------------------
(* sorted(items) of Issue, IssueComment and IssueEvent objects *)

MaxItems == 3

\* The values of `created', as instants.
ItemTimes == 1 .. MaxItems

\* The lists sorted: issues, or comments and events as show puts them in
\* one list.
Timeline(classes) ==
    UNION {[1 .. n -> [cls : classes, created : ItemTimes]] : n \in 0 .. MaxItems}

ItemLists == Timeline({"Issue"}) \cup Timeline({"IssueComment", "IssueEvent"})


-----------------------------------------------------------------------------
(* Issue.comment, Issue.close, Issue.reopen and the close and reopen        *)
(* commands                                                                 *)

\* The issue class of an adapter, constructed from the payload of a response.
NewIssue(adapter, fails, ctx, p) ==
    CASE adapter = "GitHub" -> GitHubIssue(fails, ctx, p)
      [] adapter = "GitLab" -> GitLabIssue(ctx, p)
      [] adapter = "Gogs"   -> GogsIssue(ctx, p)

\* issue.comment(body): one POST; the comment is built from the response,
\* its author being the user who posts (GitHubUser fetches the detail).
Issue_comment(adapter, fails, ctx, number, body) ==
    LET log1 == Send(fails, ctx.log, "POST", <<"comments", number>>,
                     [body |-> body])
    IN  IF ~Last(log1).ok THEN Failed(ctx, log1)
        ELSE LET author == IF adapter = "GitHub"
                           THEN GitHubUser(fails, WithLog(ctx, log1), 1)
                           ELSE Res(WithLog(ctx, log1),
                                    Returned(InlineUser(
                                        IF adapter = "GitLab"
                                        THEN "GitLabUser" ELSE "GogsUser",
                                        1)))
             IN  Res(author.ctx,
                     Returned([cls |-> <<adapter, "IssueComment">>,
                               body |-> body,
                               author |-> author.out.value]))

\* The request that changes the state of the issue.
StateChange(adapter, state) ==
    CASE adapter = "GitHub" -> [method |-> "PATCH", data |-> [state |-> state]]
      [] adapter = "Gogs"   -> [method |-> "PATCH", data |-> [state |-> state]]
      [] adapter = "GitLab" ->
            [method |-> "PUT",
             data |-> [state_event |-> IF state = "closed" THEN "close"
                                       ELSE "reopen"]]

\* The state change alone, as reopen() makes it.
Issue_reopen(adapter, fails, ctx, state, p) ==
    IF adapter = "JIRA" THEN Res(ctx, Raised("NotImplementedError", "", <<>>))
    ELSE LET sc   == StateChange(adapter, state)
             log1 == Send(fails, ctx.log, sc.method, <<"issue", p.number>>,
                          sc.data)
         IN  IF Last(log1).ok
             THEN NewIssue(adapter, fails, WithLog(ctx, log1), p)
             ELSE Failed(ctx, log1)

\* The state change is sent first and the comment posted once it succeeded.
Issue_close_CommentsLast(adapter, fails, ctx, comment, p) ==
    IF adapter = "JIRA" THEN Res(ctx, Raised("NotImplementedError", "", <<>>))
    ELSE IF IsTrue(comment) /\ ~IsStr(comment)
    THEN Res(ctx, Raised("ValueError", "comment must be a string", <<>>))
    ELSE LET r == Issue_reopen(adapter, fails, ctx, "closed", p)
         IN  IF r.out.kind = "raised" \/ ~IsTrue(comment) THEN r
             ELSE LET c == Issue_comment(adapter, fails, r.ctx, p.number,
                                         comment.str)
                  IN  IF c.out.kind = "raised" THEN c ELSE Res(c.ctx, r.out)

\* issue.close(comment=comment); p is the payload of the response to the
\* state change.
Issue_close(adapter, fails, ctx, comment, p) ==
    IF adapter = "JIRA" THEN Res(ctx, Raised("NotImplementedError", "", <<>>))
    ELSE IF IsTrue(comment) /\ ~IsStr(comment)
    THEN Res(ctx, Raised("ValueError", "comment must be a string", <<>>))
    ELSE LET c == IF IsTrue(comment)
                  THEN Issue_comment(adapter, fails, ctx, p.number,
                                     comment.str)
                  ELSE Res(ctx, Returned(None))
         IN  IF c.out.kind = "raised" THEN c
             ELSE Issue_reopen(adapter, fails, c.ctx, "closed", p)

\* Values a caller may pass as the comment of close.
CloseComments == {PyNone, Str(""), Str("done"), PyInt(1)}

\* a != b of two objects whose classes define no comparison with each
\* other: two str differ by value, any other two objects are distinct.
PyNe(a, b) == IF IsStr(a) /\ IsStr(b) THEN a.str # b.str ELSE TRUE

\* s.strip() of the strings the model passes.
Strip(s) == IF s = " " THEN "" ELSE s

\* _finish_(action, number, url): the message is printed.
Finished(action, number) == Returned(<<action, number>>)

\* The arguments of the close command: --no-message and --message.
CloseKw == [no_message : BOOLEAN, message : {PyNone, Str(" "), Str("done")}]

\* What the user leaves in the editor.
EditorTexts == {"", "done"}

\* close(service, **kwargs) of the command line; p is the payload of the
\* issue fetched.
cli_close(adapter, fails, ctx, kw, editor, p) ==
    LET fetched == Service_issue(adapter, fails, ctx, p)
        comment == IF kw.no_message THEN PyNone
                   ELSE IF IsTrue(kw.message) THEN kw.message
                   ELSE Str(editor)
    IN  IF fetched.out.kind = "raised" THEN fetched
        ELSE IF PyNe(fetched.out.value.state, Str("open"))
        THEN Res(fetched.ctx, Raised("GitIssueError", "issue %s is not open",
                                     <<p.number>>))
        ELSE IF ~kw.no_message /\ Strip(comment.str) = ""
        THEN Res(fetched.ctx, Raised("GitIssueError",
                                     "aborted due to empty message", <<>>))
        ELSE LET r == Issue_close(adapter, fails, fetched.ctx, comment,
                                  [p EXCEPT !.state = Native(adapter, "closed")])
             IN  IF r.out.kind = "raised" THEN r
                 ELSE Res(r.ctx, Finished("Closed", p.number))

\* reopen(service, **kwargs) of the command line
cli_reopen(adapter, fails, ctx, p) ==
    LET fetched == Service_issue(adapter, fails, ctx, p)
    IN  IF fetched.out.kind = "raised" THEN fetched
        ELSE IF PyNe(fetched.out.value.state, Str("closed"))
        THEN Res(fetched.ctx, Raised("GitIssueError", "issue %s is not closed",
                                     <<p.number>>))
        ELSE LET r == Issue_reopen(adapter, fails, fetched.ctx, "open",
                                   [p EXCEPT !.state = Native(adapter, "open")])
             IN  IF r.out.kind = "raised" THEN r
                 ELSE Res(r.ctx, Finished("Reopened", p.number))


-----------------------------------------------------------------------------
(* The milestones of an Issue *)

\* A fixVersion as JIRA serves it.
JiraVersion == [name |-> "v1"]

\* JIRAMilestone(milestone)
JIRAMilestone(version) ==
    Returned([cls |-> <<"JIRA", "Milestone">>, title |-> version.name])

\* The keyword argument each issue class passes to Issue.__init__ for the
\* milestone of its payload; `milestone' is None or the milestone.
MilestoneKwargs(adapter, milestone, now) ==
    LET made == IF adapter = "JIRA" THEN JIRAMilestone(JiraVersion)
                ELSE NewMilestone(adapter, milestone, now)
    IN  IF milestone # None /\ made.kind = "raised" THEN made
        ELSE Returned(
            CASE adapter \in {"GitHub", "GitLab", "JIRA"} ->
                    [milestones |-> IF milestone # None
                                    THEN PyList(<<made.value>>)
                                    ELSE PyList(<<>>)]
              [] adapter = "Gogs" ->
                    [milestone |-> IF milestone # None THEN made.value
                                   ELSE PyNone])

\* self.milestones = kwargs.pop('milestones', None), a list of Milestone
\* when it is truthy.
Issue_milestones(kwargs) ==
    LET milestones == IF "milestones" \in DOMAIN kwargs
                      THEN kwargs.milestones ELSE PyNone
    IN  IF IsTrue(milestones) /\ DOMAIN milestones # {"list"}
        THEN Raised("ValueError",
                    "milestones must be a list of subclasses of Milestone",
                    <<>>)
        ELSE Returned(milestones)

\* The milestones attribute of the issue an adapter builds from a payload.
IssueMilestones(adapter, milestone, now) ==
    LET kwargs == MilestoneKwargs(adapter, milestone, now)
    IN  IF kwargs.kind = "raised" THEN kwargs
        ELSE Issue_milestones(kwargs.value)


-----------------------------------------------------------------------------
(* JIRAIssueEvent *)

MaxDeltas == 2

\* The shape of the rendering rule of each field of a changelog item:
\* "from" tests fromString alone, "both" tests fromString and toString,
\* "always" appends one line whatever they are; 'labels' appends a line for
\* each of the two that is set, 'Component' builds a JIRALabel of the
\* string; any other field has no rule.
RuleShape(field) ==
    CASE field \in {"assignee", "description", "Attachment", "Epic Child",
                    "Link", "RemoteIssueLink"} -> "from"
      [] field \in {"priority", "resolution", "Epic Name", "Epic Status",
                    "Fix Version", "Flagged", "Parent", "Sprint"} -> "both"
      [] field \in {"summary", "status", "issuetype", "Epic Link", "Rank",
                    "Workflow"} -> "always"
      [] field = "labels" -> "labels"
      [] field = "Component" -> "component"
      [] OTHER -> "none"

\* One field of each shape, and a field without a rule.
DeltaFields ==
    {"assignee", "priority", "summary", "labels", "Component",
     "customfield_10001"}

\* fromString and toString are a text or null.
Deltas == [field : DeltaFields, fromString : {None, {"a"}},
           toString : {None, {"b"}}]

Changelogs == UNION {[1 .. n -> Deltas] : n \in 1 .. MaxDeltas}

\* A line of the description: the item it renders and the wording chosen.
Line(item, wording) == [of |-> item, wording |-> wording]

\* The lines the rules append for an item.
RuleLines(item) ==
    CASE RuleShape(item.field) = "from" ->
            <<Line(item, IF item.fromString # None THEN "from" ELSE "to")>>
      [] RuleShape(item.field) = "both" ->
            <<Line(item, IF item.fromString # None /\ item.toString # None
                         THEN "from-to"
                         ELSE IF item.fromString # None THEN "from"
                         ELSE "to")>>
      [] RuleShape(item.field) = "always" -> <<Line(item, "from-to")>>
      [] RuleShape(item.field) = "labels" ->
            (IF item.fromString # None THEN <<Line(item, "from")>> ELSE <<>>)
            \o (IF item.toString # None THEN <<Line(item, "to")>> ELSE <<>>)
      [] OTHER -> <<>>

\* if not body: body.append(str(item))
FallbackLines(item, body) ==
    IF body = <<>> THEN <<Line(item, "str(item)")>> ELSE <<>>

\* The loop of JIRAIssueEvent.__init__ over event['items'], then the
\* construction of the event.
RECURSIVE JIRAIssueEvent(_, _)
JIRAIssueEvent(items, body) ==
    IF items = <<>>
    THEN Returned([cls |-> "JIRAIssueEvent", event |-> body])
    ELSE LET item  == Head(items)
             ruled == body \o RuleLines(item)
         IN  IF RuleShape(item.field) = "component"
             THEN Raised("TypeError", "string indices must be integers", <<>>)
             ELSE JIRAIssueEvent(Tail(items),
                                 ruled \o FallbackLines(item, ruled))


-----------------------------------------------------------------------------
Init ==
    /\ op = [adapter |-> "-", name |-> "start"]
    /\ http = <<>>
    /\ outcome = Returned(None)
    /\ pc = "idle"
    /\ ghUsers = <<>>
    /\ glCache = {}
    /\ jiraCache = {}
    /\ gogsIssue = None
    /\ cacheWriter = [github |-> <<>>, gitlab |-> <<>>, jira |-> <<>>]

\* The context a call starts in: no request issued yet.
Entry == Ctx(<<>>, ghUsers, glCache, jiraCache)

\* Service instances of one process.
MaxServices == 2

Services == 1 .. MaxServices

\* The instance a call is made through: the first one, unless the call
\* names another.
Through(call) == IF "inst" \in DOMAIN call THEN call.inst ELSE 1

\* The writers of the entries `keys' of a cache, those in `fresh' written
\* by the call in progress.
Writers(old, keys, fresh, inst) ==
    [k \in keys |-> IF k \in fresh THEN inst ELSE old[k]]

\* The keys of gitlab.CACHE the requests of `log' assigned: labels() and
\* milestones() that succeeded.
GitLabAssigned(log) ==
    {k \in {"labels", "milestones"} :
        \E i \in DOMAIN log : log[i].url = <<k, 0>> /\ log[i].ok}

\* The call `call' ends with the result r.
Ends(call, r) ==
    /\ cacheWriter' =
         [github |-> Writers(cacheWriter.github, DOMAIN r.ctx.users,
                             DOMAIN r.ctx.users \ DOMAIN ghUsers,
                             Through(call)),
          gitlab |-> Writers(cacheWriter.gitlab, r.ctx.gl,
                             GitLabAssigned(r.ctx.log), Through(call)),
          jira   |-> Writers(cacheWriter.jira, r.ctx.jira,
                             r.ctx.jira \ jiraCache, Through(call))]
    /\ pc' = "done"
    /\ op' = call
    /\ http' = r.ctx.log
    /\ outcome' = r.out
    /\ ghUsers' = r.ctx.users
    /\ glCache' = r.ctx.gl
    /\ jiraCache' = r.ctx.jira

\* The call has ended and its caller goes on: the module-level caches are
\* all that outlives it.
Return ==
    /\ pc = "done"
    /\ pc' = "idle"
    /\ op' = [adapter |-> "-", name |-> "start"]
    /\ http' = <<>>
    /\ outcome' = Returned(None)
    /\ UNCHANGED caches

\* get_service()
GetService ==
    /\ pc = "idle"
    /\ \E cfg \in Configs :
        /\ Ends([adapter |-> "-", name |-> "get_service", cfg |-> cfg],
                Res(Entry, get_service(cfg)))
        /\ UNCHANGED gogsIssue

\* GitHub(), GitLab(), Gogs(), JIRA()
Construct ==
    /\ pc = "idle"
    /\ \E cls \in Adapters, cfg \in Configs :
        /\ Ends([adapter |-> cls, name |-> "__init__", cfg |-> cfg],
                Res(Entry, NewService(cls, cfg)))
        /\ UNCHANGED gogsIssue

\* issue.edit(**kw) on an issue of a GitHub, GitLab or Gogs service; the
\* backend answers a success with the payload p.
Edit ==
    /\ pc = "idle"
    /\ \E adapter \in EditAdapters, kw \in EditArgs, fails \in FailSets,
          p \in IssuePayloads :
          \E r \in {Issue_edit(adapter, fails, Entry, kw,
                             [p EXCEPT !.state = Native(adapter, @)])} :
            /\ Ends([adapter |-> adapter, name |-> "edit", kw |-> kw], r)
            /\ UNCHANGED gogsIssue

NextEdit ==
    \/ Edit
    \/ Return

SpecEdit == Init /\ [][NextEdit]_vars

\* GitHub.issues(state), against a backend serving `chain'.
GitHubIssues ==
    /\ pc = "idle"
    /\ \E state \in StateArgs, chain \in Chains, fails \in FailSets :
          \E r \in {GitHub_issues(fails, Entry, state, chain)} :
            /\ Ends([adapter |-> "GitHub", name |-> "issues",
                     state |-> state, chain |-> chain], r)
            /\ UNCHANGED gogsIssue

\* GitLab.issues(state)
GitLabIssues ==
    /\ pc = "idle"
    /\ \E state \in StateArgs, chain \in Chains, fails \in FailSets :
          \E r \in {GitLab_issues(fails, Entry, state, chain)} :
            /\ Ends([adapter |-> "GitLab", name |-> "issues",
                     state |-> state, chain |-> chain], r)
            /\ UNCHANGED gogsIssue

\* Gogs.issues(state)
GogsIssues ==
    /\ pc = "idle"
    /\ \E state \in StateArgs, chain \in Chains, fails \in FailSets :
          \E r \in {Gogs_issues(fails, Entry, state, chain)} :
            /\ Ends([adapter |-> "Gogs", name |-> "issues",
                     state |-> state, chain |-> chain], r)
            /\ UNCHANGED gogsIssue

\* JIRA.issues(state), against a search of `total' issues served
\* maxResults at a time.
JIRAIssues ==
    /\ pc = "idle"
    /\ \E state \in StateArgs, maxResults \in JiraPageSizes,
          total \in 0 .. MaxTotal, fails \in FailSets :
          \E r \in {JIRA_issues(fails, Entry, state, maxResults, total)} :
            /\ Ends([adapter |-> "JIRA", name |-> "issues", state |-> state,
                     maxResults |-> maxResults, total |-> total], r)
            /\ UNCHANGED gogsIssue

NextIssues ==
    \/ GitHubIssues
    \/ GitLabIssues
    \/ GogsIssues
    \/ JIRAIssues
    \/ Return

SpecIssues == Init /\ [][NextIssues]_vars

\* service.issue(number) on a service of each adapter; the backend answers
\* a success with the payload p.  The caller keeps the GogsIssue it gets.
\* The service is any of the instances of the process.
FetchIssue ==
    /\ pc = "idle"
    /\ \E adapter \in Adapters, p \in IssuePayloads, fails \in FailSets,
          inst \in Services :
          \E r \in {Service_issue(adapter, fails, Entry,
                                  [p EXCEPT !.state = Native(adapter, @)])} :
            /\ Ends([adapter |-> adapter, name |-> "issue", p |-> p,
                     inst |-> inst], r)
            /\ gogsIssue' =
                 IF adapter = "Gogs" /\ r.out.kind = "returned"
                 THEN {[state |-> r.out.value.state, cache |-> EmptyDict]}
                 ELSE gogsIssue

NextIssue ==
    \/ FetchIssue
    \/ Return

SpecIssue == Init /\ [][NextIssue]_vars

\* The lists the backend may answer a GogsIssue with: none matters once
\* the issue caches its comments.
Servable ==
    IF gogsIssue # None /\ "comments" \in DOMAIN Val(gogsIssue).cache
    THEN {<<>>}
    ELSE CommentLists

\* Gogs.issue(number): the caller takes hold of the GogsIssue.
GogsFetchIssue ==
    /\ pc = "idle"
    /\ \E p \in IssuePayloads, fails \in FailSets :
          \E r \in {Gogs_issue(fails, Entry, p)} :
            /\ Ends([adapter |-> "Gogs", name |-> "issue", p |-> p], r)
            /\ gogsIssue' =
                 IF r.out.kind = "returned"
                 THEN {[state |-> r.out.value.state, cache |-> EmptyDict]}
                 ELSE gogsIssue

\* issue.comments() on the GogsIssue held
GogsComments ==
    /\ pc = "idle"
    /\ gogsIssue # None
    /\ \E served \in Servable, fails \in FailSets :
          \E r \in {GogsIssue_comments(fails, Entry, Val(gogsIssue),
                                       served)} :
            /\ Ends([adapter |-> "Gogs", name |-> "comments",
                     served |-> served, before |-> Val(gogsIssue)], r)
            /\ gogsIssue' = {r.inst}

\* issue.events() on the GogsIssue held, under either interpreter
GogsEvents ==
    /\ pc = "idle"
    /\ gogsIssue # None
    /\ \E served \in Servable, py \in PythonVersions, fails \in FailSets :
          \E r \in {GogsIssue_events(fails, Entry, py, Val(gogsIssue),
                                     served)} :
            /\ Ends([adapter |-> "Gogs", name |-> "events", py |-> py,
                     served |-> served, before |-> Val(gogsIssue)], r)
            /\ gogsIssue' = {r.inst}

\* issue.comment(body) on the GogsIssue held: the comment is posted and
\* the cache of the issue is left as it is.
GogsComment ==
    /\ pc = "idle"
    /\ gogsIssue # None
    /\ \E fails \in FailSets :
          /\ Ends([adapter |-> "Gogs", name |-> "comment", body |-> "note",
                   before |-> Val(gogsIssue)],
                  Issue_comment("Gogs", fails, Entry, 0, "note"))
          /\ UNCHANGED gogsIssue

NextGogs ==
    \/ GogsFetchIssue
    \/ GogsComments
    \/ GogsEvents
    \/ GogsComment
    \/ Return

SpecGogs == Init /\ [][NextGogs]_vars

\* service.user_search(keyword); the backend reports `matches'.
UserSearch ==
    /\ pc = "idle"
    /\ \E adapter \in Adapters, matches \in UserMatches, fails \in FailSets :
          \E r \in {Service_user_search(adapter, fails, Entry, matches)} :
            /\ Ends([adapter |-> adapter, name |-> "user_search",
                     matches |-> matches], r)
            /\ UNCHANGED gogsIssue

NextUsers ==
    \/ UserSearch
    \/ Return

SpecUsers == Init /\ [][NextUsers]_vars


\* service.create(title, body, ...)
Create ==
    /\ pc = "idle"
    /\ \E adapter \in Adapters, fails \in FailSets :
        \E kw \in CreateArgs(adapter), p \in IssuePayloads :
          \E r \in {Service_create(adapter, fails, Entry, kw,
                                   [p EXCEPT !.state = Native(adapter, @)])} :
            /\ Ends([adapter |-> adapter, name |-> "create", kw |-> kw], r)
            /\ UNCHANGED gogsIssue

NextCreate ==
    \/ Create
    \/ Return

SpecCreate == Init /\ [][NextCreate]_vars


\* A milestone of one of the adapters' classes is constructed.
MakeMilestone ==
    /\ pc = "idle"
    /\ \E adapter \in EditAdapters, now \in Clock :
        \E milestone \in {None, {BackendMilestone(adapter)}} :
          /\ Ends([adapter |-> adapter, name |-> "Milestone",
                   milestone |-> milestone, now |-> now],
                  Res(Entry, NewMilestone(adapter, milestone, now)))
          /\ UNCHANGED gogsIssue

\* Label(name, color)
MakeLabel ==
    /\ pc = "idle"
    /\ \E color \in LabelColors :
          /\ Ends([adapter |-> "-", name |-> "Label", color |-> color],
                  Res(Entry, Label("bug", color)))
          /\ UNCHANGED gogsIssue

\* _hex_to_color_(color) or _hex_to_term_(color) of the color of a label
Colorize ==
    /\ pc = "idle"
    /\ \E red \in Channels, green \in Channels, blue \in Channels,
          fn \in {"_hex_to_color_", "_hex_to_term_"} :
          \E color \in {[red |-> red, green |-> green, blue |-> blue]} :
            /\ Ends([adapter |-> "-", name |-> fn, color |-> color],
                    Res(Entry, IF fn = "_hex_to_color_"
                               THEN _hex_to_color_(color)
                               ELSE _hex_to_term_(color)))
            /\ UNCHANGED gogsIssue

\* sorted(items)
SortItems ==
    /\ pc = "idle"
    /\ \E items \in ItemLists :
          /\ Ends([adapter |-> "-", name |-> "sorted", items |-> items],
                  Res(Entry, Returned(Sorted(items))))
          /\ UNCHANGED gogsIssue

\* The states GitLab gives an issue in its payloads.
GitLabNativeStates == {"opened", "reopened", "closed"}

\* GitLabIssue(issue, url) of a payload in each native state
MakeGitLabIssue ==
    /\ pc = "idle"
    /\ \E p \in IssuePayloads, state \in GitLabNativeStates :
          /\ Ends([adapter |-> "GitLab", name |-> "GitLabIssue",
                   p |-> [p EXCEPT !.state = state]],
                  GitLabIssue(Entry, [p EXCEPT !.state = state]))
          /\ UNCHANGED gogsIssue

\* An issue of each adapter is built from a payload with or without a
\* milestone; the outcome is its milestones attribute.
MakeIssueMilestones ==
    /\ pc = "idle"
    /\ \E adapter \in Adapters, carries \in BOOLEAN, now \in Clock :
        \E milestone \in {IF ~carries THEN None
                          ELSE IF adapter = "JIRA" THEN {JiraVersion}
                          ELSE {BackendMilestone(adapter)}} :
          /\ Ends([adapter |-> adapter, name |-> "Issue.milestones",
                   carries |-> carries, now |-> now],
                  Res(Entry, IssueMilestones(adapter, milestone, now)))
          /\ UNCHANGED gogsIssue

NextEntities ==
    \/ MakeMilestone
    \/ MakeLabel
    \/ Colorize
    \/ SortItems
    \/ MakeGitLabIssue
    \/ MakeIssueMilestones
    \/ Return

SpecEntities == Init /\ [][NextEntities]_vars


NextResolver ==
    \/ GetService
    \/ Construct
    \/ Return

SpecResolver == Init /\ [][NextResolver]_vars

\* issue.close(comment=comment) on an issue of each adapter; the backend
\* answers the state change with the payload p.
Close ==
    /\ pc = "idle"
    /\ \E adapter \in Adapters, comment \in CloseComments,
          fails \in FailSets, p \in IssuePayloads :
          \E r \in {Issue_close(adapter, fails, Entry, comment,
                                [p EXCEPT !.state = Native(adapter, "closed")])} :
            /\ Ends([adapter |-> adapter, name |-> "close",
                     comment |-> comment, p |-> p], r)
            /\ UNCHANGED gogsIssue

\* issue.reopen()
Reopen ==
    /\ pc = "idle"
    /\ \E adapter \in Adapters, fails \in FailSets, p \in IssuePayloads :
          \E r \in {Issue_reopen(adapter, fails, Entry, "open",
                                 [p EXCEPT !.state = Native(adapter, "open")])} :
            /\ Ends([adapter |-> adapter, name |-> "reopen", p |-> p], r)
            /\ UNCHANGED gogsIssue

\* git issue close
CloseCommand ==
    /\ pc = "idle"
    /\ \E adapter \in Adapters, kw \in CloseKw, editor \in EditorTexts,
          fails \in FailSets, p \in IssuePayloads :
          \E r \in {cli_close(adapter, fails, Entry, kw, editor,
                              [p EXCEPT !.state = Native(adapter, @)])} :
            /\ Ends([adapter |-> adapter, name |-> "cli.close", kw |-> kw,
                     editor |-> editor, p |-> p], r)
            /\ UNCHANGED gogsIssue

\* git issue reopen
ReopenCommand ==
    /\ pc = "idle"
    /\ \E adapter \in Adapters, fails \in FailSets, p \in IssuePayloads :
          \E r \in {cli_reopen(adapter, fails, Entry,
                               [p EXCEPT !.state = Native(adapter, @)])} :
            /\ Ends([adapter |-> adapter, name |-> "cli.reopen", p |-> p], r)
            /\ UNCHANGED gogsIssue

NextClose ==
    \/ Close
    \/ Reopen
    \/ CloseCommand
    \/ ReopenCommand
    \/ Return

SpecClose == Init /\ [][NextClose]_vars

\* JIRAIssueEvent(event) of a changelog record
MakeJIRAIssueEvent ==
    /\ pc = "idle"
    /\ \E items \in Changelogs :
          /\ Ends([adapter |-> "JIRA", name |-> "JIRAIssueEvent",
                   items |-> items],
                  Res(Entry, JIRAIssueEvent(items, <<>>)))
          /\ UNCHANGED gogsIssue

NextChangelog ==
    \/ MakeJIRAIssueEvent
    \/ Return

SpecChangelog == Init /\ [][NextChangelog]_vars

Next ==
    \/ GetService
    \/ Construct
    \/ Edit
    \/ GitHubIssues
    \/ GitLabIssues
    \/ GogsIssues
    \/ JIRAIssues
    \/ FetchIssue
    \/ GogsFetchIssue
    \/ GogsComments
    \/ GogsEvents
    \/ UserSearch
    \/ Create
    \/ MakeMilestone
    \/ MakeLabel
    \/ Colorize
    \/ SortItems
    \/ MakeGitLabIssue
    \/ Close
    \/ Reopen
    \/ CloseCommand
    \/ ReopenCommand
    \/ MakeIssueMilestones
    \/ MakeJIRAIssueEvent
    \/ GogsComment
    \/ Return

Spec == Init /\ [][Next]_vars

-----------------------------------------------------------------------------
(* Claims about the service resolver, stated over SpecResolver. *)

ConfiguredName == CHOOSE n \in op.cfg.service : TRUE

ResolverCalled == pc = "done" /\ op.name = "get_service"

\* The names an error message mentions.
NamesIn(out) == {out.args[i] : i \in DOMAIN out.args}

\* C8 (as claimed): each of the four adapter classes overrides every
\* operation of the Service contract, so constructing it under a complete
\* configuration yields an instance.
C8_EveryAdapterInstantiable ==
    (pc = "done" /\ op.name = "__init__" /\ CompleteConfig(op.cfg)) =>
        /\ ServiceAbstract \subseteq Methods(op.adapter)
        /\ outcome = Returned([cls |-> op.adapter])

\* C9 (as claimed): with issue.service set to GitHub, GitLab, Gogs or JIRA
\* and the rest of the configuration complete, get_service returns an
\* instance of that adapter.
C9_GetServiceReturnsAdapter ==
    (/\ ResolverCalled
     /\ op.cfg.service # None
     /\ CompleteConfig(op.cfg)
     /\ ConfiguredName \in Adapters) =>
        outcome = Returned([cls |-> ConfiguredName])

\* C10 (as claimed): get_service fails with a configuration error when the
\* backend name is unset or unsupported, and for an unsupported name the
\* message names exactly the allowed backend names.
C10_MessageNamesAllowedSet ==
    (ResolverCalled /\ op.cfg.service # None
        /\ ConfiguredName \notin Adapters) =>
        /\ outcome.kind = "raised"
        /\ outcome.exc = "GitIssueError"
        /\ NamesIn(outcome) \in {Registry, Adapters}

\* C10 (amended): get_service raises GitIssueError when issue.service is
\* unset ('issue service not set') and when its value is not a key of the
\* resolver's table; in the second case the message names the rejected
\* value, and no allowed name.
C10_MessageNamesRejectedValue ==
    ResolverCalled =>
        /\ op.cfg.service = None =>
              outcome = Raised("GitIssueError", "issue service not set", <<>>)
        /\ (op.cfg.service # None /\ ConfiguredName \notin Registry) =>
              /\ outcome.kind = "raised"
              /\ outcome.exc = "GitIssueError"
              /\ outcome.text = "invalid issue service: %s"
              /\ NamesIn(outcome) = {ConfiguredName}

C10_Witness ==
    /\ ResolverCalled
    /\ op.cfg.service = {"Bitbucket"}
    /\ outcome.kind = "raised"

-----------------------------------------------------------------------------
(* Claims about Issue.edit, stated over SpecEdit. *)

EditCalled == pc = "done" /\ op.name = "edit"

\* Title, body, assignee, labels and milestone are all absent or empty.
NoFieldSet(kw) ==
    /\ kw.title \in {None, {""}}
    /\ kw.body \in {None, {""}}
    /\ kw.assignee = None
    /\ kw.labels = <<>>
    /\ kw.milestone = None

\* C1 (as claimed): for GitHub, GitLab and Gogs, edit() with no recognized
\* field set fails with 'aborted edit due to no changes' and no HTTP request
\* has been issued when the error is raised.
C1_NoChangesNoRequest ==
    (EditCalled /\ NoFieldSet(op.kw)) =>
        /\ outcome =
             Raised("GitIssueError", "aborted edit due to no changes", <<>>)
        /\ http = <<>>

SentinelGiven(kw) == \E i \in DOMAIN kw.labels : kw.labels[i].name = "none"

\* The request clears the labels of the issue: an empty list (GitHub), an
\* empty value (GitLab), or the delete-all-labels call (Gogs).
ClearsLabels(adapter, req) ==
    CASE adapter = "GitHub" ->
            /\ req.method = "PATCH"
            /\ "labels" \in DOMAIN req.data
            /\ req.data.labels = <<>>
      [] adapter = "GitLab" ->
            /\ req.method = "PUT"
            /\ "labels" \in DOMAIN req.data
            /\ req.data.labels = [str |-> ""]
      [] adapter = "Gogs" ->
            /\ req.method = "DELETE"
            /\ req.url[1] = "issue/labels"

\* The labels of the pool a request names, by name or by id.
CarriedLabels(adapter, req) ==
    IF "labels" \notin DOMAIN req.data THEN {}
    ELSE LET v == req.data.labels
         IN  CASE adapter = "GitHub" ->
                    {l \in LabelPool : \E i \in DOMAIN v : v[i] = l.name}
               [] adapter = "GitLab" ->
                    IF "list" \notin DOMAIN v THEN {}
                    ELSE {l \in LabelPool :
                            \E i \in DOMAIN v.list : v.list[i] = l.name}
               [] adapter = "Gogs" ->
                    {l \in LabelPool : \E i \in DOMAIN v : v[i] = l.id}

\* C3: for GitHub, GitLab and Gogs, edit(labels=L) with the 'none' sentinel
\* in L issues a request that clears all labels of the issue, and no
\* request of the call carries a label named 'none' or any other label of L.
C3_NoneSentinelClearsLabels ==
    (EditCalled /\ SentinelGiven(op.kw)) =>
        /\ \E i \in DOMAIN http : ClearsLabels(op.adapter, http[i])
        /\ \A i \in DOMAIN http : CarriedLabels(op.adapter, http[i]) = {}

\* The sentinel comes second in a list of two labels, and the edit went
\* through.
C3_Witness ==
    /\ EditCalled
    /\ op.adapter = "Gogs"
    /\ Len(op.kw.labels) = 2
    /\ op.kw.labels[1].name = "bug"
    /\ op.kw.labels[2].name = "none"
    /\ outcome.kind = "returned"

-----------------------------------------------------------------------------
(* Claims about Service.issues, stated over SpecIssues. *)

IssuesCalled == pc = "done" /\ op.name = "issues"

\* The states each adapter advertises or takes from its backend.
Recognized(adapter) ==
    IF adapter = "JIRA" THEN {"open", "closed", "all", "To Do", "Done"}
    ELSE {"open", "closed", "all"}

IsPageRequest(req) == req.url[1] \in {"issues", "search"}

PageRequests == SelectSeq(http, IsPageRequest)

\* The first page of the chain that carries no 'next' link.
LastLinked(chain) ==
    CHOOSE k \in 1 .. Len(chain) :
        ~chain[k].next /\ \A j \in 1 .. (k - 1) : chain[j].next

\* C4: GitHub issues(state) over a finite chain of pages linked by 'next'
\* issues exactly one listing GET per linked page, in order, none after the
\* first page without a 'next' link, and returns the pages' issues
\* concatenated in the order encountered.
C4_GitHubFollowsNextLinks ==
    (IssuesCalled /\ op.adapter = "GitHub" /\ outcome.kind = "returned") =>
        LET last      == LastLinked(op.chain)
            got       == outcome.value
            Served(k) == PageIssues("GitHub", op.chain, op.state, k)
        IN  /\ Len(PageRequests) = last
            /\ \A k \in 1 .. last :
                  /\ PageRequests[k].method = "GET"
                  /\ PageRequests[k].url = <<"issues", k>>
            /\ {got[i].number : i \in DOMAIN got} =
                  UNION {{Served(k)[j].number : j \in DOMAIN Served(k)} :
                            k \in 1 .. last}
            /\ \A i \in DOMAIN got : got[i].cls = "GitHubIssue"
            /\ \A i \in 1 .. (Len(got) - 1) : got[i].number < got[i + 1].number

\* Two pages of one issue each, the first linked to the second, with a
\* third page the backend holds but does not link.
C4_Witness ==
    /\ IssuesCalled
    /\ op.adapter = "GitHub"
    /\ op.state = "open"
    /\ Len(op.chain) = 3
    /\ op.chain[1] = [size |-> 1, next |-> TRUE]
    /\ op.chain[2] = [size |-> 1, next |-> FALSE]
    /\ outcome.kind = "returned"
    /\ Len(outcome.value) = 2

\* C7: in issues() of every adapter, a page request answered with a
\* non-success status makes the call raise the domain error at once: the
\* failed request is the last request of the call (no retry, no further
\* page) and nothing collected from earlier pages is returned.
C7_PageFailureRaisesAtOnce ==
    IssuesCalled =>
        \A i \in DOMAIN http :
            (IsPageRequest(http[i]) /\ ~http[i].ok) =>
                /\ i = Len(http)
                /\ \A j \in 1 .. (i - 1) :
                      http[j].url # http[i].url \/ http[j].data # http[i].data
                /\ outcome = Raised("GitIssueError", "response",
                                    <<http[i].url>>)

\* The second page fails after a first page that held issues.
C7_Witness ==
    /\ IssuesCalled
    /\ op.adapter = "Gogs"
    /\ op.state = "open"
    /\ op.chain[1].size > 0
    /\ Len(http) = 2
    /\ http[1].ok
    /\ ~http[2].ok
    /\ outcome.kind = "raised"

\* C20: GitLab issues('all') is accepted, 'all' being one of the states
\* GitLab.states() advertises: it fails only with the error of a listing
\* request that failed, and otherwise returns the issues of the pages of
\* the open and of the closed bucket, each followed along its 'next'
\* links.
C20_GitLabAcceptsAll ==
    (IssuesCalled /\ op.adapter = "GitLab" /\ op.state = "all"
        /\ op.state \in Range(GitLab_states)) =>
        LET last == LastLinked(op.chain)
            got  == outcome.value
        IN  /\ outcome.kind = "raised" =>
                  /\ outcome.text = "response"
                  /\ \E i \in DOMAIN http :
                        IsPageRequest(http[i]) /\ ~http[i].ok
            /\ outcome.kind = "returned" =>
                  {got[i].number : i \in DOMAIN got} =
                      UNION {{PageIssues("GitLab", op.chain, bucket, k)[j].number :
                                 j \in DOMAIN PageIssues("GitLab", op.chain,
                                                         bucket, k)} :
                             <<bucket, k>> \in {"open", "closed"} \X (1 .. last)}

-----------------------------------------------------------------------------
(* Claims about GogsIssue.events *)

EventsCalled == pc = "done" /\ op.name = "events"

\* The state-change entries of a list, the i-th most recent of them.
StateChanges(entries) == {e \in Range(entries) : e.body = ""}

NthRecent(marks, i) ==
    CHOOSE e \in marks :
        Cardinality({f \in marks : f.created_at > e.created_at}) = i - 1

\* The state an issue was in after the i-th most recent of its state
\* changes, given the state it is in now.
StateAfter(current, i) ==
    IF i % 2 = 1 THEN current
    ELSE IF current = "open" THEN "closed" ELSE "open"

\* C5 (as claimed): events() of a Gogs issue whose comments are at hand
\* yields one event per empty-body entry, most recent first, the first
\* labelled from the issue's current state ('reopened' when open, 'closed'
\* when closed) and each older one from the toggled state.
C5_EventsAlternateFromCurrentState ==
    (EventsCalled /\ (http = <<>> \/ Last(http).ok)) =>
        LET marks == StateChanges(Val(gogsIssue).cache.comments)
            now   == op.before.state.name
        IN  /\ outcome.kind = "returned"
            /\ Len(outcome.value) = Cardinality(marks)
            /\ \A i \in DOMAIN outcome.value :
                  /\ outcome.value[i].created =
                        NthRecent(marks, i).created_at
                  /\ outcome.value[i].event =
                        (IF StateAfter(now, i) = "open" THEN "reopened"
                         ELSE "closed")

-----------------------------------------------------------------------------
(* Claims about failed requests *)

IssueCalled == pc = "done" /\ op.name = "issue"

\* The requests an operation makes on the side of the one it is about: the
\* detail of a GitHub user, the labels and milestones GitLab.issue caches,
\* the probe by which JIRA.issue finds out whether it can cache the
\* statuses.
Auxiliary(i) ==
    \/ http[i].url[1] = "user"
    \/ op.adapter = "GitLab" /\ http[i].url[1] \in {"labels", "milestones"}
    \/ op.adapter = "JIRA" /\ http[i].url[1] = "status" /\ i = 1

-----------------------------------------------------------------------------
(* Claims about Service.user_search, stated over SpecUsers. *)

\* C11 (as claimed): in every adapter, user_search fails with the domain
\* error when the backend reports zero matching users, and never returns an
\* empty sequence.
C11_NoMatchRaises ==
    (pc = "done" /\ op.name = "user_search") =>
        /\ (http[1].ok /\ op.matches = <<>>) =>
              outcome.kind = "raised" /\ outcome.exc = "GitIssueError"
        /\ outcome.kind = "returned" => outcome.value # <<>>

-----------------------------------------------------------------------------
(* Claims about Service.create, stated over SpecCreate. *)

CreateCalled ==
    pc = "done" /\ op.name = "create" /\ op.adapter \in EditAdapters

\* The arguments the claim calls invalid: a title or body that is no text,
\* an assignee, a label list or a milestone of the wrong type.
WrongArgument(adapter, kw) ==
    \/ ~IsStr(kw.title)
    \/ ~IsStr(kw.body)
    \/ IsTrue(kw.assignee) /\ ~IsA(kw.assignee, adapter, "User")
    \/ DOMAIN kw.labels # {"list"}
    \/ \E i \in DOMAIN kw.labels.list :
          ~IsA(kw.labels.list[i], adapter, "Label")
    \/ IsTrue(kw.milestone) /\ ~IsA(kw.milestone, adapter, "Milestone")

-----------------------------------------------------------------------------
(* Claims about the entity classes, stated over SpecEntities. *)

\* C13 (as claimed): for GitHub, GitLab and Gogs, constructing the
\* adapter's milestone with no payload succeeds and yields the title
\* 'none', the state 'closed' and a due date that parses as a timestamp.
C13_SentinelMilestone ==
    (pc = "done" /\ op.name = "Milestone" /\ op.milestone = None) =>
        /\ outcome.kind = "returned"
        /\ outcome.value.title = "none"
        /\ outcome.value.state = "closed"
        /\ \E t \in Clock : outcome.value.due = IsoFormat(t)

\* Six characters, each a hexadecimal digit.
IsHex6(color) ==
    /\ IsStr(color)
    /\ Len(color.str) = 6
    /\ \A i \in 1 .. 6 : DigitValue(color.str[i]) # {}

\* C15 (as claimed): a label is constructed if and only if its color is a
\* string of exactly 6 hexadecimal digits, and re-encoding the (red, green,
\* blue) of a constructed label with two hex digits per channel gives back
\* the string it was constructed from.
C15_ColorRoundTrip ==
    (pc = "done" /\ op.name = "Label") =>
        /\ outcome.kind = "returned" <=> IsHex6(op.color)
        /\ outcome.kind = "returned" =>
              EncodeColor(outcome.value.color) = op.color.str

ColorizeCalled ==
    pc = "done" /\ op.name \in {"_hex_to_color_", "_hex_to_term_"}

\* The function called and the table it looks up.
Colorized(color) ==
    IF op.name = "_hex_to_color_" THEN _hex_to_color_(color)
    ELSE _hex_to_term_(color)

CalledTable == IF op.name = "_hex_to_color_" THEN ColorTable ELSE TermTable

\* C16: quantization is idempotent: the RGB triple of the palette entry a
\* color was mapped to is itself mapped to that entry.
C16_QuantizationIdempotent ==
    (ColorizeCalled /\ outcome.kind = "returned") =>
        \A key \in DOMAIN CalledTable :
            CalledTable[key] = outcome.value =>
                Colorized([red |-> key[1], green |-> key[2],
                           blue |-> key[3]]) = outcome

\* A color that is no palette color is mapped to the entry (0x80, 0, 0).
C16_Witness ==
    /\ ColorizeCalled
    /\ op.color = [red |-> 129, green |-> 64, blue |-> 0]
    /\ outcome = Returned("red")

\* C17: for every RGB triple with channels in 0..255 the triple looked up
\* (each channel value quantizes as one of Channels does)
\* after quantization and the 0xff and 0x80 passes is a key of the table:
\* the lookup never fails, and the entry returned is the one the table
\* holds for that triple.
C17_LookupTotal ==
    ColorizeCalled =>
        /\ \A c \in 0 .. 255 : \E d \in Channels : Quantize(c) = Quantize(d)
        /\ QuantizedColor(op.color) \in DOMAIN CalledTable
        /\ outcome = Returned(CalledTable[QuantizedColor(op.color)])

\* A triple that quantizes to (0xff, 0x80, 0x80), which is no key of the
\* table before the passes.
C17_Witness ==
    /\ ColorizeCalled
    /\ op.color = [red |-> 255, green |-> 128, blue |-> 65]
    /\ outcome = Returned("lightred")

SortCalled == pc = "done" /\ op.name = "sorted"

DistinctCreated(items) ==
    \A i, j \in DOMAIN items : i # j => items[i].created # items[j].created

Ascending(items) ==
    \A i, j \in DOMAIN items : i < j => items[i].created < items[j].created

\* C18: sorting a list of issues, or a list mixing comments and events,
\* whose values of created are pairwise distinct gives the same items in
\* ascending order of created.
C18_SortedByCreated ==
    (SortCalled /\ DistinctCreated(op.items)) =>
        /\ outcome.kind = "returned"
        /\ Len(outcome.value) = Len(op.items)
        /\ Range(outcome.value) = Range(op.items)
        /\ Ascending(outcome.value)

\* Comments given before an event that is older than both, the later
\* comment first.
C18_Witness ==
    /\ SortCalled
    /\ op.items = <<[cls |-> "IssueComment", created |-> 3],
                    [cls |-> "IssueComment", created |-> 2],
                    [cls |-> "IssueEvent", created |-> 1]>>
    /\ outcome.value = <<[cls |-> "IssueEvent", created |-> 1],
                         [cls |-> "IssueComment", created |-> 2],
                         [cls |-> "IssueComment", created |-> 3]>>

\* The channels of a color as _quantize_ maps them, before the passes.
Quantized(color) ==
    <<Quantize(color.red), Quantize(color.green), Quantize(color.blue)>>

\* C27: after quantization and both normalization passes every channel of
\* the triple is 0x00, 0x80 or 0xff and all non-zero channels carry the
\* same value; a channel below the bound of a pass is forced to 0 whenever
\* another channel reached that bound: with a channel at 0xff every other
\* channel ends at 0, and without one the channels at 0x80 are kept.  The
\* entry returned is the one of that triple.
C27_QuantizedNormalForm ==
    ColorizeCalled =>
        LET q == Quantized(op.color)
            r == QuantizedColor(op.color)
        IN  /\ \A i \in 1 .. 3 : r[i] \in {0, 128, 255}
            /\ \A i, j \in 1 .. 3 : (r[i] # 0 /\ r[j] # 0) => r[i] = r[j]
            /\ (\E i \in 1 .. 3 : q[i] = 255) =>
                  \A j \in 1 .. 3 : r[j] = IF q[j] = 255 THEN 255 ELSE 0
            /\ (\A i \in 1 .. 3 : q[i] # 255) => r = q
            /\ outcome = Returned(CalledTable[r])

\* Channels at 0xbf, 0xbe and 0x41 quantize to (0xff, 0x80, 0x80): the
\* two channels below the bound are forced to 0.
C27_Witness ==
    /\ ColorizeCalled
    /\ op.name = "_hex_to_color_"
    /\ op.color = [red |-> 191, green |-> 190, blue |-> 65]
    /\ QuantizedColor(op.color) = <<255, 0, 0>>
    /\ outcome = Returned("lightred")

-----------------------------------------------------------------------------
(* Claims about the milestone of Issue.edit, stated over SpecEdit. *)

\* The key under which the adapter's edit payload names the milestone.
MilestoneField(adapter) ==
    IF adapter = "GitLab" THEN "milestone_id" ELSE "milestone"

\* The payload names no milestone: null for GitHub, whose payload holds
\* None or the set of one number; for GitLab and Gogs, whose payload holds
\* an id, a value that is not the id of the milestone given.
NamesNoMilestone(adapter, data, given) ==
    IF adapter = "GitHub" THEN data[MilestoneField(adapter)] = None
    ELSE data[MilestoneField(adapter)] # given.id

\* C14 (as claimed): for GitHub, GitLab and Gogs, edit(milestone=<the
\* 'none' sentinel>) sends a payload whose milestone field is null or
\* empty, and no payload that references the sentinel's own id or number.
C14_SentinelRemovesMilestone ==
    (EditCalled /\ op.kw.milestone = {NoneMilestone}) =>
        \A i \in DOMAIN http :
            MilestoneField(op.adapter) \in DOMAIN http[i].data =>
                NamesNoMilestone(op.adapter, http[i].data, NoneMilestone)


-----------------------------------------------------------------------------
(* Claims about the memoization caches, stated over SpecIssue. *)

Requested(url) == \E i \in DOMAIN http : http[i].url = url

\* The ids of the author and the assignee of an issue.
IssueUsers(issue) ==
    {issue.author.id} \cup {user.id : user \in issue.assignee}

\* C19: the memoization caches are scoped to one Service instance: the
\* call of issue() through an instance reads no cache entry written by a
\* call through another instance.  A GitHub user detail is read when the
\* user of the issue is cached and not fetched; the JIRA states are read
\* when they are cached and not probed; the GitLab labels and milestones
\* in the cache are read by every GitLabIssue constructed.
C19_CachesPerInstance ==
    (pc = "done" /\ op.name = "issue") =>
        /\ (op.adapter = "GitHub" /\ outcome.kind = "returned") =>
              \A u \in IssueUsers(outcome.value) :
                  (u \in DOMAIN ghUsers /\ ~Requested(<<"user", u>>)) =>
                      cacheWriter.github[u] = op.inst
        /\ (op.adapter = "JIRA" /\ "states" \in jiraCache
                /\ ~Requested(<<"status", 0>>)) =>
              cacheWriter.jira["states"] = op.inst
        /\ (op.adapter = "GitLab" /\ outcome.kind = "returned") =>
              \A k \in glCache : cacheWriter.gitlab[k] = op.inst


-----------------------------------------------------------------------------
(* Claims about the issues built from payloads, stated over SpecEntities. *)

\* C21: a GitLab payload whose native state is 'opened', 'reopened' or
\* 'closed' is constructed into an issue whose state is named 'open' (for
\* opened and reopened) or 'closed'; the construction succeeds for all
\* three.
C21_GitLabNativeStates ==
    (pc = "done" /\ op.name = "GitLabIssue") =>
        /\ outcome.kind = "returned"
        /\ outcome.value.state.name =
              IF op.p.state = "closed" THEN "closed" ELSE "open"


-----------------------------------------------------------------------------
(* Claims about closing and reopening, stated over SpecClose. *)

\* The command has fetched the issue: the GET of the issue succeeded.
Fetched ==
    \E i \in DOMAIN http :
        http[i].method = "GET" /\ http[i].url[1] = "issue" /\ http[i].ok

\* The adapter's close or reopen was invoked: it sent a request that is no
\* GET, or it is the one of JIRA, which raises NotImplementedError.
AdapterInvoked ==
    \/ \E i \in DOMAIN http : http[i].method # "GET"
    \/ outcome.kind = "raised" /\ outcome.exc = "NotImplementedError"

\* C22: the close command, given a message or none wanted, invokes the
\* adapter's close exactly when the issue fetched is open, and otherwise
\* fails with 'is not open' without invoking it; the reopen command
\* invokes the adapter's reopen exactly when the issue fetched is closed.
C22_CloseOnlyOpen ==
    /\ (pc = "done" /\ op.name = "cli.close" /\ Fetched
            /\ (op.kw.no_message \/ op.kw.message = Str("done"))) =>
          /\ AdapterInvoked <=> op.p.state = "open"
          /\ op.p.state # "open" =>
                /\ outcome.kind = "raised"
                /\ outcome.text = "issue %s is not open"
    /\ (pc = "done" /\ op.name = "cli.reopen" /\ Fetched) =>
          /\ AdapterInvoked <=> op.p.state = "closed"
          /\ op.p.state # "closed" =>
                /\ outcome.kind = "raised"
                /\ outcome.text = "issue %s is not closed"


IsStateChange(req) == req.method \in {"PATCH", "PUT"}

IsCommentPost(req) == req.method = "POST" /\ req.url[1] = "comments"

CloseWithComment ==
    /\ pc = "done"
    /\ op.name = "close"
    /\ op.adapter \in {"GitHub", "GitLab", "Gogs"}
    /\ IsStr(op.comment)
    /\ op.comment.str # ""

\* C29: for GitHub, GitLab and Gogs, close(comment=c) with a non-empty c
\* posts the comment before it sends the state-change request; when the
\* post fails the state change is never sent; when the state change fails
\* the call raises with that request as its last one, the comment posted
\* before it being left as it is.
C29_CommentBeforeStateChange ==
    CloseWithComment =>
        /\ Len(http) >= 1
        /\ IsCommentPost(http[1])
        /\ http[1].data = [body |-> op.comment.str]
        /\ \A i \in 2 .. Len(http) : ~IsCommentPost(http[i])
        /\ ~http[1].ok =>
              /\ Len(http) = 1
              /\ outcome = RaisedResponse(http[1])
        /\ \A i \in DOMAIN http :
              (IsStateChange(http[i]) /\ ~http[i].ok) =>
                  /\ i = Len(http)
                  /\ http[1].ok
                  /\ outcome = RaisedResponse(http[i])

\* The comment is posted and the state change is refused.
C29_Witness ==
    /\ CloseWithComment
    /\ op.adapter = "GitLab"
    /\ Len(http) = 2
    /\ http[1].ok
    /\ IsStateChange(http[2])
    /\ ~http[2].ok
    /\ outcome.kind = "raised"


\* C23: for every adapter, the issue built from a payload that carries a
\* milestone has a milestones list holding exactly that milestone, and the
\* issue built from a payload without one has an empty list, never an
\* absent value.
C23_MilestonesIsList ==
    (pc = "done" /\ op.name = "Issue.milestones") =>
        /\ outcome.kind = "returned"
        /\ DOMAIN outcome.value = {"list"}
        /\ Len(outcome.value.list) = IF op.carries THEN 1 ELSE 0
        /\ op.carries => outcome.value.list[1].title = "v1"


-----------------------------------------------------------------------------
(* Claims about the label sub-call of GogsIssue.edit, stated over SpecEdit. *)

IsLabelsCall(req) == req.url[1] = "issue/labels"

IsPatch(req) == req.method = "PATCH"

\* Gogs edit is called with a title or a body, and with labels.
GogsEditWithLabels ==
    /\ EditCalled
    /\ op.adapter = "Gogs"
    /\ Truthy(op.kw.title) \/ Truthy(op.kw.body)
    /\ Len(op.kw.labels) > 0

\* C24 (as claimed): a failing label sub-call surfaces as the domain
\* error, and among the executions of the call there is one in which the
\* PATCH of the title and body has succeeded before the label sub-call
\* fails.
C24_PatchCommittedBeforeLabels ==
    GogsEditWithLabels =>
        /\ \A i \in DOMAIN http :
              (IsLabelsCall(http[i]) /\ ~http[i].ok) =>
                  outcome = RaisedResponse(http[i])
        /\ \E fails \in FailSets, p \in IssuePayloads :
              LET log == GogsIssue_edit(fails, Entry, op.kw, p).ctx.log
              IN  \E i, j \in DOMAIN log :
                      /\ i < j
                      /\ IsPatch(log[i]) /\ log[i].ok
                      /\ IsLabelsCall(log[j]) /\ ~log[j].ok

\* C24 (amended): the label sub-call is the first request of the call.
\* When it fails the call raises the domain error of its response and the
\* PATCH of the title and body is never sent; when it succeeds the PATCH
\* follows, and a failure of the PATCH raises with the labels already
\* replaced.
C24_LabelsBeforePatch ==
    GogsEditWithLabels =>
        /\ Len(http) >= 1
        /\ IsLabelsCall(http[1])
        /\ ~http[1].ok =>
              /\ Len(http) = 1
              /\ outcome = RaisedResponse(http[1])
        /\ http[1].ok =>
              /\ Len(http) = 2
              /\ IsPatch(http[2])
              /\ "title" \in DOMAIN http[2].data
                    \/ "body" \in DOMAIN http[2].data
              /\ ~http[2].ok => outcome = RaisedResponse(http[2])

\* The labels are replaced and the PATCH of the title is refused.
C24_Witness ==
    /\ GogsEditWithLabels
    /\ Len(http) = 2
    /\ http[1].method = "PUT"
    /\ http[1].ok
    /\ ~http[2].ok
    /\ outcome.kind = "raised"


-----------------------------------------------------------------------------
(* Claims about the cache of GitHub users, stated over SpecIssue. *)

\* The users of an issue that carry the id u.
UsersWithId(issue, u) ==
    {user \in {issue.author} \cup issue.assignee : user.id = u}

\* The positions of the detail requests for u in a log.
DetailRequests(log, u) == {i \in DOMAIN log : log[i].url = <<"user", u>>}

\* C25: across the GitHub users constructed in one run, once a detail
\* fetch for a user id has succeeded no further detail request is issued
\* for that id, and the email and name of every later user with that id
\* are those of the cached response.  Stated of every call of GitHub
\* issue(): an id cached when the call starts is not requested, its entry
\* is kept and its users carry the entry's email and name; within the call
\* no detail request follows a successful one for the same id.
C25_DetailFetchedOnce ==
    [][(pc = "idle" /\ pc' = "done" /\ op'.name = "issue"
            /\ op'.adapter = "GitHub") =>
        \A u \in UserIds :
            /\ u \in DOMAIN ghUsers =>
                  /\ DetailRequests(http', u) = {}
                  /\ u \in DOMAIN ghUsers'
                  /\ ghUsers'[u] = ghUsers[u]
                  /\ outcome'.kind = "returned" =>
                        \A user \in UsersWithId(outcome'.value, u) :
                            /\ user.email = {ghUsers[u].email}
                            /\ user.name = {ghUsers[u].name}
            /\ \A i, j \in DetailRequests(http', u) :
                  (i < j) => ~http'[i].ok]_vars

\* The author of the issue is built from the cache: no detail request is
\* issued for it, and it carries an email.
C25_Witness ==
    /\ pc = "done"
    /\ op.name = "issue"
    /\ op.adapter = "GitHub"
    /\ outcome.kind = "returned"
    /\ DetailRequests(http, outcome.value.author.id) = {}
    /\ outcome.value.author.email # None


-----------------------------------------------------------------------------
(* Claims about the search of JIRA.issues, stated over SpecIssues. *)

JiraIssuesCalled == IssuesCalled /\ op.adapter = "JIRA"

\* C26: JIRA issues(state) against a backend that reports op.total
\* matching issues in pages of op.maxResults >= 1 ends; when no request
\* fails it returns each of the issues exactly once, in the order of the
\* backend, and its searches start at 0, maxResults, 2 * maxResults, ...,
\* up to the first offset beyond the total.
C26_JiraSearchReturnsAll ==
    JiraIssuesCalled =>
        /\ (op.state \in Recognized("JIRA") /\ \A i \in DOMAIN http : http[i].ok)
              => outcome.kind = "returned"
        /\ outcome.kind = "returned" =>
              /\ Len(outcome.value) = op.total
              /\ \A i \in DOMAIN outcome.value : outcome.value[i].number = i
              /\ Len(PageRequests) = (op.total \div op.maxResults) + 1
              /\ \A k \in DOMAIN PageRequests :
                    PageRequests[k].url = <<"search", (k - 1) * op.maxResults>>

\* Two issues in pages of two: both are returned once, after a second
\* search that finds nothing.
C26_Witness ==
    /\ JiraIssuesCalled
    /\ op.total = 2
    /\ op.maxResults = 2
    /\ outcome.kind = "returned"
    /\ Len(outcome.value) = 2
    /\ Len(PageRequests) = 2


-----------------------------------------------------------------------------
(* Claims about JIRAIssueEvent, stated over SpecChangelog. *)

\* C28: the description of the event built from a changelog record holds
\* at least one line for every field delta of the record, a delta whose
\* field has no rendering rule contributing its raw text whatever its
\* position among the items.
C28_EveryDeltaRendered ==
    (pc = "done" /\ op.name = "JIRAIssueEvent") =>
        /\ outcome.kind = "returned"
        /\ \A i \in DOMAIN op.items :
              \E k \in DOMAIN outcome.value.event :
                  outcome.value.event[k].of = op.items[i]


-----------------------------------------------------------------------------
(* Claims about the cache of a GogsIssue, stated over SpecGogs. *)

\* The positions of the GETs of the comments endpoint in a log.
CommentGets(log) ==
    {i \in DOMAIN log : log[i].method = "GET" /\ log[i].url[1] = "comments"}

Cached(held) == held # None /\ "comments" \in DOMAIN Val(held).cache

\* C30: on one GogsIssue, comments() and events() perform at most one
\* successful GET of the comments endpoint.  A call on an issue whose
\* cache holds the comments issues no request and leaves the cache as it
\* is; a call on an issue that holds none issues one GET, which fills the
\* cache when it succeeds and leaves it empty, raising the domain error,
\* when it fails; comment() posts without touching the cache.
C30_CommentsFetchedOnce ==
    [][(pc = "idle" /\ pc' = "done" /\ gogsIssue # None
            /\ op'.name \in {"comments", "events", "comment"}) =>
        /\ op'.name = "comment" =>
              /\ gogsIssue' = gogsIssue
              /\ CommentGets(http') = {}
        /\ (op'.name # "comment" /\ Cached(gogsIssue)) =>
              /\ http' = <<>>
              /\ gogsIssue' = gogsIssue
        /\ (op'.name # "comment" /\ ~Cached(gogsIssue)) =>
              /\ Len(http') = 1
              /\ CommentGets(http') = {1}
              /\ http'[1].ok <=> Cached(gogsIssue')
              /\ http'[1].ok =>
                    Val(gogsIssue').cache.comments = op'.served
              /\ ~http'[1].ok =>
                    /\ gogsIssue' = gogsIssue
                    /\ outcome' = RaisedResponse(http'[1])]_vars

\* comments() answers from the cache: no request is issued.
C30_Witness ==
    /\ pc = "done"
    /\ op.name = "comments"
    /\ "comments" \in DOMAIN op.before.cache
    /\ Len(op.before.cache.comments) = 2
    /\ http = <<>>
    /\ outcome.kind = "returned"

=============================================================================
